---- MODULE Spec2Model ----
(***************************************************************************)
(* PyCasMap: construct library, probe derivation, probe index and the      *)
(* paired FASTQ classifier of pycasmap/core.py.                            *)
(*                                                                         *)
(* Strings are sequences of one-character strings.  Python's None is the   *)
(* integer -1 (construct ids are never negative).                          *)
(***************************************************************************)
EXTENDS Integers, Sequences, FiniteSets, TLC

VARIABLES
    pc,            \* position of the running command
    spacer_rows,   \* rows of the spacer TSV file
    constant_rows, \* rows of the constant TSV file
    spacers,       \* list returned by load_spacers
    constants,     \* list returned by load_constants
    constructs,    \* list returned by build_constructs / the Construct under test
    r1_table,      \* PyCasMap.r1_table : probe -> set of construct ids
    r2_table,      \* PyCasMap.r2_table
    r1_f,          \* lines of the R1 FASTQ file
    r2_f,          \* lines of the R2 FASTQ file
    total_reads,   \* process_constructs: lines consumed from zip(r1_f, r2_f)
    mapped_reads,  \* process_constructs: pairs counted
    counts,        \* process_constructs: construct id -> count
    r1_seq,        \* local r1_seq (last stripped R1 sequence / last R1 probe)
    r2_seq,        \* local r2_seq
    matched_cid,   \* local matched_cid of the last classified pair
    warnings,      \* number of "Ambiguous match" warnings printed
    summary,       \* the end-of-stream summary that was printed
    command,       \* args.command
    self_constructs, \* PyCasMap.constructs
    tuple_table,   \* TupleTable(spacers)
    constant_table, \* ConstantTable(constants)
    spacer_table,  \* SpacerTable(spacers)
    line_idx,      \* process_spacers / describe_reads: lines consumed from the zip
    output,        \* lines written to the output file
    reports,       \* the "Spacers found" reports printed by process_spacers
    arg_sequence,  \* the string a directly called function is given
    arg_k,         \* the k a KmerIter is constructed with
    arg_max_count, \* the max_count _find_spacers is given
    kmer_iter,     \* the KmerIter object: sequence, k, pos
    yielded,       \* the k-mers the KmerIter has returned from __next__
    returned       \* the value the last direct call returned

vars == << pc, spacer_rows, constant_rows, spacers, constants, constructs,
           r1_table, r2_table, r1_f, r2_f, total_reads, mapped_reads, counts,
           r1_seq, r2_seq, matched_cid, warnings, summary, command,
           self_constructs, tuple_table, constant_table, spacer_table,
           line_idx, output, reports, arg_sequence, arg_k, arg_max_count,
           kmer_iter, yielded, returned >>

\* the variables of the direct calls, which no command touches
callvars == << arg_sequence, arg_k, arg_max_count, kmer_iter, yielded, returned >>

\* the variables process_constructs and build_constructs never touch
cmdvars == << command, self_constructs, tuple_table, constant_table,
              spacer_table, line_idx, output, reports, callvars >>

(***************************************************************************)
(* Bounds of the checked input families.                                   *)
(***************************************************************************)
MaxPlexity == 10        \* spacers per construct id in the spacer file
MaxGroups == 2          \* construct ids in the spacer file
MaxTrailing == 1        \* spacers of a trailing incomplete construct id
MaxExtraConstants == 1  \* constants beyond the plexity
MaxFirstCid == 1        \* smallest construct id in the spacer file
MaxStreamGroups == 2    \* construct ids in the libraries that are streamed
MaxPairs == 2           \* records in a FASTQ file
MaxRunGroups == 2       \* construct ids in the libraries of the counting commands
MaxRunPairs == 2        \* records in the FASTQ files of the counting commands
MaxReportGroups == 2    \* construct ids in the libraries of spacers, describe, build
MaxReportPairs == 1     \* records in the FASTQ files of spacers and describe

None == -1

Min(a, b) == IF a < b THEN a ELSE b
Max(a, b) == IF a > b THEN a ELSE b

EmptyMap == [x \in {} |-> 0]

(***************************************************************************)
(* Python list / string primitives used by the code.                       *)
(***************************************************************************)
\* s[:n]
Take(s, n) == SubSeq(s, 1, Min(n, Len(s)))

\* s[-n:] for n >= 1
LastN(s, n) == SubSeq(s, Max(1, Len(s) - n + 1), Len(s))

\* s[start:]
From(s, start) == SubSeq(s, start + 1, Len(s))

\* s[::-1]
Reverse(s) == [i \in 1..Len(s) |-> s[Len(s) + 1 - i]]

\* p in s  (exact substring test)
Occurs(p, s) == \E i \in 0..(Len(s) - Len(p)) : SubSeq(s, i + 1, i + Len(p)) = p

Whitespace == {" ", "\n", "\t", "\r"}

RECURSIVE LStrip(_)
LStrip(s) == IF s # << >> /\ Head(s) \in Whitespace THEN LStrip(Tail(s)) ELSE s

\* str.strip()
Strip(s) == Reverse(LStrip(Reverse(LStrip(s))))

DigitChars == << "0", "1", "2", "3", "4", "5", "6", "7", "8", "9" >>

DigitValue(ch) == CHOOSE d \in 0..9 : DigitChars[d + 1] = ch

\* int(field) for a field of decimal digits
RECURSIVE ParseInt(_)
ParseInt(f) ==
    IF Len(f) = 1 THEN DigitValue(f[1])
    ELSE 10 * ParseInt(SubSeq(f, 1, Len(f) - 1)) + DigitValue(f[Len(f)])

\* key=lambda x: (x.cid, x.vid), compared as Python compares tuples
SpacerKeyLE(a, b) == a.cid < b.cid \/ (a.cid = b.cid /\ a.vid <= b.vid)

\* key=lambda x: x.cid
ConstantKeyLE(a, b) == a.cid <= b.cid

\* sorted(spacers, key=...): Python's sort is stable
RECURSIVE InsertSpacer(_, _)
InsertSpacer(x, s) ==
    IF s = << >> THEN << x >>
    ELSE IF SpacerKeyLE(s[Len(s)], x) THEN Append(s, x)
    ELSE Append(InsertSpacer(x, SubSeq(s, 1, Len(s) - 1)), s[Len(s)])

RECURSIVE SortSpacers(_)
SortSpacers(s) ==
    IF s = << >> THEN << >>
    ELSE InsertSpacer(s[Len(s)], SortSpacers(SubSeq(s, 1, Len(s) - 1)))

\* sorted(constants, key=...)
RECURSIVE InsertConstant(_, _)
InsertConstant(x, s) ==
    IF s = << >> THEN << x >>
    ELSE IF ConstantKeyLE(s[Len(s)], x) THEN Append(s, x)
    ELSE Append(InsertConstant(x, SubSeq(s, 1, Len(s) - 1)), s[Len(s)])

RECURSIVE SortConstants(_)
SortConstants(s) ==
    IF s = << >> THEN << >>
    ELSE InsertConstant(s[Len(s)], SortConstants(SubSeq(s, 1, Len(s) - 1)))

(***************************************************************************)
(* Spacer, Constant, Construct                                             *)
(***************************************************************************)
Spacer(sequence, cid, vid) == [sequence |-> sequence, cid |-> cid, vid |-> vid]

Constant(sequence, cid) == [sequence |-> sequence, cid |-> cid]

Construct(sp, co, construct_id) ==
    [spacers |-> sp, constants |-> co, construct_id |-> construct_id,
     plexity |-> Len(sp)]

\* str.maketrans('ATGCatgc', 'TACGtacg'): other characters are left as they are
Complement(ch) ==
    CASE ch = "A" -> "T"
      [] ch = "T" -> "A"
      [] ch = "G" -> "C"
      [] ch = "C" -> "G"
      [] ch = "a" -> "t"
      [] ch = "t" -> "a"
      [] ch = "g" -> "c"
      [] ch = "c" -> "g"
      [] OTHER -> ch

\* mutant: the complemented string is not reversed
reverse_complement_not_reversed(sequence) ==
    [i \in 1..Len(sequence) |-> Complement(sequence[i])]

reverse_complement(sequence) ==
    Reverse([i \in 1..Len(sequence) |-> Complement(sequence[i])])

\* for const, spacer in zip(constants, spacers): seq += const.sequence + spacer.sequence
RECURSIVE build_sequence(_, _)
build_sequence(sp, co) ==
    IF sp = << >> \/ co = << >> THEN << >>
    ELSE Head(co).sequence \o Head(sp).sequence \o build_sequence(Tail(sp), Tail(co))

take_count(plexity) ==
    IF plexity = 4 THEN 2
    ELSE IF plexity = 6 THEN 3
    ELSE IF plexity = 3 THEN 2
    ELSE plexity \div 2

get_r1_sequence(K) ==
    build_sequence(Take(K.spacers, take_count(K.plexity)),
                   Take(K.constants, take_count(K.plexity)))

get_r2_sequence(K) ==
    IF K.plexity \in {4, 6, 3}
    THEN reverse_complement(
             build_sequence(LastN(K.spacers, take_count(K.plexity)),
                            LastN(K.constants, take_count(K.plexity))))
    ELSE reverse_complement(
             build_sequence(From(K.spacers, K.plexity - take_count(K.plexity)),
                            From(K.constants, K.plexity - take_count(K.plexity))))

sequence(K) == build_sequence(K.spacers, K.constants)

(***************************************************************************)
(* PyCasMap: loading and build_constructs                                  *)
(***************************************************************************)
\* rows of csv.reader with at least 3 fields become Spacers, sorted by (cid, vid)
load_spacers(rows) ==
    LET HasFields(row) == Len(row) >= 3
        kept == SelectSeq(rows, HasFields)
    IN  SortSpacers([i \in 1..Len(kept) |->
            Spacer(kept[i][1], ParseInt(kept[i][2]), ParseInt(kept[i][3]))])

\* rows with at least 2 fields become Constants, sorted by cid
load_constants(rows) ==
    LET HasFields(row) == Len(row) >= 2
        kept == SelectSeq(rows, HasFields)
    IN  SortConstants([i \in 1..Len(kept) |->
            Constant(kept[i][1], ParseInt(kept[i][2]))])

\* len(spacers) >= n and the first n spacers carry the same cid
FirstCidsEqual(sp, n) ==
    /\ Len(sp) >= n
    /\ \A i \in 1..(n - 1) : sp[i].cid = sp[i + 1].cid

\* the spacer count build_constructs infers; 0 stands for the raised ValueError
spacer_count(sp) ==
    IF FirstCidsEqual(sp, 6) THEN 6
    ELSE IF FirstCidsEqual(sp, 4) THEN 4
    ELSE 0

\* the constructs list: for cid, chunk in enumerate(spacers[::spacer_count]),
\* keeping the chunks with cid * spacer_count + spacer_count <= len(spacers)
chunk_constructs(sp, co) ==
    LET sc == spacer_count(sp)
        strides == (Len(sp) + sc - 1) \div sc
        Complete(cid) == cid * sc + sc <= Len(sp)
        cids == SelectSeq([i \in 1..strides |-> i - 1], Complete)
    IN  [k \in 1..Len(cids) |->
            Construct(SubSeq(sp, cids[k] * sc + 1, (cids[k] + 1) * sc), co, cids[k])]

\* table[key].add(cid) for every (key, cid) of entries, on a defaultdict(set)
table_add(table, entries) ==
    [p \in (DOMAIN table) \cup {e[1] : e \in entries} |->
        (IF p \in DOMAIN table THEN table[p] ELSE {})
            \cup {e[2] : e \in {x \in entries : x[1] = p}}]

Range(s) == {s[i] : i \in DOMAIN s}

(***************************************************************************)
(* PyCasMap._find_matching_construct                                       *)
(***************************************************************************)
\* the update loop: union of the ids of every key that occurs in the read
table_matches(table, read) ==
    UNION {table[seq] : seq \in {s \in DOMAIN table : Occurs(s, read)}}

\* mutant: the R2 lookup is left out of the decision
find_matching_construct_r1_only(r1, r2, t1, t2) ==
    LET intersection == table_matches(t1, r1)
    IN  IF Cardinality(intersection) = 1
        THEN CHOOSE c \in intersection : TRUE
        ELSE None

\* mutant: a read that matches several constructs on one side is ambiguous
find_matching_construct_side_ambiguous(r1, r2, t1, t2) ==
    LET intersection == table_matches(t1, r1) \cap table_matches(t2, r2)
    IN  IF /\ Cardinality(intersection) = 1
           /\ Cardinality(table_matches(t1, r1)) = 1
           /\ Cardinality(table_matches(t2, r2)) = 1
        THEN CHOOSE c \in intersection : TRUE
        ELSE None

\* mutant: an ambiguous pair goes to the smallest matching id
find_matching_construct_first_of_ambiguous(r1, r2, t1, t2) ==
    LET intersection == table_matches(t1, r1) \cap table_matches(t2, r2)
    IN  IF intersection # {}
        THEN CHOOSE c \in intersection : \A d \in intersection : c <= d
        ELSE None

find_matching_construct(r1, r2, t1, t2) ==
    LET intersection == table_matches(t1, r1) \cap table_matches(t2, r2)
    IN  IF Cardinality(intersection) = 1
        THEN CHOOSE c \in intersection : TRUE
        ELSE None

\* the "Warning: Ambiguous match found" print
ambiguous_warning(r1, r2, t1, t2) ==
    Cardinality(table_matches(t1, r1) \cap table_matches(t2, r2)) > 1

(***************************************************************************)
(* process_constructs: the zip loop over the two files                     *)
(***************************************************************************)
\* total_reads % 4 == 2
is_sequence_line(total) == total % 4 = 2

\* mutant: the entry is set to 1 instead of incremented
count_hit_set_one(cnt, cid) ==
    IF cid \in DOMAIN cnt
    THEN [cnt EXCEPT ![cid] = 1]
    ELSE cnt @@ (cid :> 1)

\* mutant: only the id that was counted first is ever counted
count_hit_first_only(cnt, cid) ==
    IF cid \in DOMAIN cnt
    THEN [cnt EXCEPT ![cid] = @ + 1]
    ELSE IF DOMAIN cnt = {} THEN (cid :> 1) ELSE cnt

\* counts[matched_cid] += 1 on a defaultdict(int)
count_hit(cnt, cid) ==
    IF cid \in DOMAIN cnt
    THEN [cnt EXCEPT ![cid] = @ + 1]
    ELSE cnt @@ (cid :> 1)

\* mutant: the loop stops one record before the end of the shorter file
zip_length_one_record_short(f1, f2) == Max(0, Min(Len(f1), Len(f2)) - 4)

\* lines zip(r1_f, r2_f) yields
zip_length(f1, f2) == Min(Len(f1), Len(f2))

(***************************************************************************)
(* Input families                                                          *)
(***************************************************************************)
Nuc(i) == << "A", "C", "G", "T" >>[(i % 4) + 1]

BaseWord(v) == << Nuc(v), Nuc(v \div 4) >>

AltWord(v) == << Nuc(v), "T" >>

\* words over C, G and a leading T, none of them a base word before position 4
GcWord(v) ==
    << << "C", "C" >>, << "G", "C" >>, << "C", "G" >>, << "G", "G" >>,
       << "T", "G" >>, << "T", "C" >> >>[(v % 6) + 1]

Templates == {"base", "alt_tail", "alt_all", "long"}

\* the spacer at position v of a construct with P spacers, by template:
\*   base      the base word of the position
\*   alt_tail  base in the first half, another word in the second half
\*   alt_all   another word at every position
\*   long      the base word, one character longer at odd positions
\*   gc        the gc word of the position
SpacerWord(t, v, P) ==
    CASE t = "base" -> BaseWord(v)
      [] t = "alt_tail" -> IF v < P \div 2 THEN BaseWord(v) ELSE AltWord(v)
      [] t = "alt_all" -> AltWord(v)
      [] t = "long" -> IF v % 2 = 1 THEN BaseWord(v) \o << "A" >> ELSE BaseWord(v)
      [] t = "gc" -> GcWord(v)

ConstWord(i) == << Nuc(i + 1) >>

RECURSIVE ToDigits(_)
ToDigits(n) ==
    IF n < 10 THEN << DigitChars[n + 1] >>
    ELSE ToDigits(n \div 10) \o << DigitChars[(n % 10) + 1] >>

\* spacer TSV: N complete construct ids of P spacers, then `trailing` spacers
\* of one more id
SpacerFile(P, tmpl, first, trailing) ==
    [k \in 1..(Len(tmpl) * P + trailing) |->
        LET g == (k - 1) \div P
            v == (k - 1) % P
        IN  << IF g < Len(tmpl) THEN SpacerWord(tmpl[g + 1], v, P) ELSE BaseWord(v),
               ToDigits(first + g), ToDigits(v) >>]

ConstantFile(n) == [k \in 1..n |-> << ConstWord(k - 1), ToDigits(k - 1) >>]

Layouts == {"in_order", "reversed"}

\* the order of the rows in the file; the reversed file ends with an empty row
Layout(rows, l) == IF l = "in_order" THEN rows ELSE Reverse(rows) \o << << >> >>

\* one FASTQ file: four lines per record
FastqLines(recs, side) ==
    [k \in 1..(4 * Len(recs)) |->
        LET seq == recs[((k - 1) \div 4) + 1][side]
            pos == (k - 1) % 4
        IN  CASE pos = 0 -> << "@", "r", "\n" >>
              [] pos = 1 -> seq \o << "\n" >>
              [] pos = 2 -> << "+", "\n" >>
              [] pos = 3 -> [i \in 1..Len(seq) |-> "I"] \o << "\n" >>]

Perfect(K) == << get_r1_sequence(K), get_r2_sequence(K) >>

Noise == << << "T", "T", "T" >>, << "T", "T", "T" >> >>

\* read pairs offered to a built library
PairPool(cs) ==
    LET first == cs[1]
        last == cs[Len(cs)]
    IN  {Perfect(K) : K \in Range(cs)}
        \cup { << << "G" >> \o get_r1_sequence(first) \o << "T" >>,
                  << "C" >> \o get_r2_sequence(first) >>,
               << get_r1_sequence(first), get_r2_sequence(last) >>,
               << get_r1_sequence(first) \o get_r1_sequence(last),
                  get_r2_sequence(last) \o get_r2_sequence(first) >>,
               Noise }

(***************************************************************************)
(* KmerIter, TupleTable and PyCasMap._find_matching_tuple                  *)
(***************************************************************************)
\* the k-mers KmerIter(sequence, k) yields, in order: one per position pos
\* with pos + k <= len(sequence)
KmerIter(seq, k) == [i \in 1..(Len(seq) - k + 1) |-> SubSeq(seq, i, i + k - 1)]

\* the keys of spacer_groups in insertion order: the cids of the spacers in
\* order of first appearance
RECURSIVE spacer_group_keys(_)
spacer_group_keys(sp) ==
    IF sp = << >> THEN << >>
    ELSE LET rest == spacer_group_keys(SubSeq(sp, 1, Len(sp) - 1))
         IN  IF sp[Len(sp)].cid \in Range(rest) THEN rest
             ELSE Append(rest, sp[Len(sp)].cid)

\* spacer_groups[cid] after spacer_group.sort(key=lambda x: x.vid); within
\* one cid the (cid, vid) order is the vid order, and both sorts are stable
spacer_group(sp, cid) ==
    LET InGroup(x) == x.cid = cid
    IN  SortSpacers(SelectSeq(sp, InGroup))

\* the map after `tuple_map[tuple(sequences[:n])] = cid` for the groups of
\* `keys` in order: a later group replaces the entry of an equal tuple
RECURSIVE tuple_map_put(_, _, _)
tuple_map_put(sp, keys, n) ==
    IF keys = << >> THEN EmptyMap
    ELSE LET prev == tuple_map_put(sp, SubSeq(keys, 1, Len(keys) - 1), n)
             cid == keys[Len(keys)]
             group == spacer_group(sp, cid)
             key == Take([i \in 1..Len(group) |-> group[i].sequence], n)
         IN  [t \in (DOMAIN prev) \cup {key} |-> IF t = key THEN cid ELSE prev[t]]

\* TupleTable.__init__
TupleTable(sp) ==
    LET keys == spacer_group_keys(sp)
        count == IF keys = << >> THEN 0 ELSE Len(spacer_group(sp, keys[1]))
    IN  [spacer_set |-> {sp[i].sequence : i \in 1..Len(sp)},
         spacer_length |-> IF sp = << >> THEN 0 ELSE Len(sp[1].sequence),
         spacer_count |-> count,
         tuple_map_4 |-> IF count = 4 THEN tuple_map_put(sp, keys, 4) ELSE EmptyMap,
         tuple_map_6 |-> IF count = 6 THEN tuple_map_put(sp, keys, 6) ELSE EmptyMap]

\* _find_spacers_in_tuple_table: the k-mers of the read that are spacers, in
\* order of position (`if spacer:` drops an empty k-mer)
find_spacers_in_tuple_table(seq, tt) ==
    LET IsSpacer(kmer) == kmer \in tt.spacer_set /\ kmer # << >>
    IN  SelectSeq(KmerIter(seq, tt.spacer_length), IsSpacer)

\* the two nested loops from window (i, j) on (1-based): i outer, j inner,
\* returning at the first window pair the map holds
RECURSIVE tuple_scan(_, _, _, _, _, _)
tuple_scan(s1, s2, h, map, i, j) ==
    IF i > Len(s1) - h + 1 THEN None
    ELSE IF j > Len(s2) - h + 1 THEN tuple_scan(s1, s2, h, map, i + 1, 1)
    ELSE IF SubSeq(s1, i, i + h - 1) \o SubSeq(s2, j, j + h - 1) \in DOMAIN map
         THEN map[SubSeq(s1, i, i + h - 1) \o SubSeq(s2, j, j + h - 1)]
    ELSE tuple_scan(s1, s2, h, map, i, j + 1)

\* mutant: the loop over the R2 windows is the outer loop
find_matching_tuple_j_outer(r1, r2, tt) ==
    LET s1 == find_spacers_in_tuple_table(r1, tt)
        s2 == find_spacers_in_tuple_table(r2, tt)
        h == tt.spacer_count \div 2
        map == IF tt.spacer_count = 4 THEN tt.tuple_map_4 ELSE tt.tuple_map_6
        Win(ij) == SubSeq(s1, ij[1], ij[1] + h - 1) \o SubSeq(s2, ij[2], ij[2] + h - 1)
        hits == {ij \in (1..(Len(s1) - h + 1)) \X (1..(Len(s2) - h + 1)) :
                    Win(ij) \in DOMAIN map}
    IN  IF tt.spacer_count \in {4, 6} /\ hits # {}
        THEN map[Win(CHOOSE ij \in hits : \A o \in hits :
                     ij[2] < o[2] \/ (ij[2] = o[2] /\ ij[1] <= o[1]))]
        ELSE None

\* mutant: no sliding, each read must hold exactly half of the spacers
find_matching_tuple_no_sliding(r1, r2, tt) ==
    LET s1 == find_spacers_in_tuple_table(r1, tt)
        s2 == find_spacers_in_tuple_table(r2, tt)
        h == tt.spacer_count \div 2
        map == IF tt.spacer_count = 4 THEN tt.tuple_map_4 ELSE tt.tuple_map_6
    IN  IF tt.spacer_count \in {4, 6} /\ Len(s1) = h /\ Len(s2) = h
           /\ (s1 \o s2) \in DOMAIN map
        THEN map[s1 \o s2]
        ELSE None

\* mutant: the key is made of the R2 window followed by the R1 window
find_matching_tuple_r2_first(r1, r2, tt) ==
    LET s1 == find_spacers_in_tuple_table(r1, tt)
        s2 == find_spacers_in_tuple_table(r2, tt)
        h == tt.spacer_count \div 2
        map == IF tt.spacer_count = 4 THEN tt.tuple_map_4 ELSE tt.tuple_map_6
    IN  IF tt.spacer_count \in {4, 6} /\ Len(s1) >= h /\ Len(s2) >= h
        THEN tuple_scan(s2, s1, h, map, 1, 1)
        ELSE None

find_matching_tuple(r1, r2, tt) ==
    LET s1 == find_spacers_in_tuple_table(r1, tt)
        s2 == find_spacers_in_tuple_table(r2, tt)
    IN  IF tt.spacer_count = 4
        THEN IF Len(s1) >= 2 /\ Len(s2) >= 2
             THEN tuple_scan(s1, s2, 2, tt.tuple_map_4, 1, 1)
             ELSE None
        ELSE IF tt.spacer_count = 6
        THEN IF Len(s1) >= 3 /\ Len(s2) >= 3
             THEN tuple_scan(s1, s2, 3, tt.tuple_map_6, 1, 1)
             ELSE None
        ELSE None

(***************************************************************************)
(* PyCasMap.save_results                                                   *)
(***************************************************************************)
\* mutant: the rows are written in descending id order
sorted_keys_descending(cnt) ==
    LET RECURSIVE desc(_)
        desc(S) == IF S = {} THEN << >>
                   ELSE LET m == CHOOSE x \in S : \A y \in S : x >= y
                        IN  << m >> \o desc(S \ {m})
    IN  desc(DOMAIN cnt)

\* sorted(counts.keys())
sorted_keys(cnt) ==
    LET RECURSIVE asc(_)
        asc(S) == IF S = {} THEN << >>
                  ELSE LET m == CHOOSE x \in S : \A y \in S : x <= y
                       IN  << m >> \o asc(S \ {m})
    IN  asc(DOMAIN cnt)

\* "ConstructID\tCounts\n"
ResultsHeader ==
    << "C", "o", "n", "s", "t", "r", "u", "c", "t", "I", "D", "\t",
       "C", "o", "u", "n", "t", "s", "\n" >>

\* f"{cid}\t{counts[cid]}\n"
results_row(cid, count) == ToDigits(cid) \o << "\t" >> \o ToDigits(count) \o << "\n" >>

\* the lines save_results writes
save_results(cnt) ==
    << ResultsHeader >>
        \o [i \in 1..Len(sorted_keys(cnt)) |->
               results_row(sorted_keys(cnt)[i], cnt[sorted_keys(cnt)[i]])]

(***************************************************************************)
(* SpacerTable, ConstantTable, process_spacers, describe_reads and the     *)
(* FASTA of the build operation                                            *)
(***************************************************************************)
\* SpacerTable.__init__
SpacerTable(sp) ==
    [spacer_set |-> {sp[i].sequence : i \in 1..Len(sp)},
     spacer_length |-> IF sp = << >> THEN 0 ELSE Len(sp[1].sequence)]

\* ConstantTable.__init__; constant_map is keyed by the sequences
ConstantTable(co) ==
    [constant_map |-> [q \in {co[i].sequence : i \in 1..Len(co)} |-> q],
     k |-> IF co = << >> THEN 0 ELSE Len(co[1].sequence)]

\* _find_spacers without max_count
find_spacers(seq, st) ==
    LET IsSpacer(kmer) == kmer \in st.spacer_set /\ kmer # << >>
    IN  SelectSeq(KmerIter(seq, st.spacer_length), IsSpacer)

\* _find_constants: the loop breaks when max_count constants were found
find_constants(seq, ct, max_count) ==
    LET IsConstant(kmer) == kmer \in DOMAIN ct.constant_map
    IN  Take(SelectSeq(KmerIter(seq, ct.k), IsConstant), max_count)

\* r1_bytes.startswith(ch)
startswith(line, ch) == Len(line) >= 1 /\ line[1] = ch

\* the else branch of the two report loops: the line is taken as a sequence
\* line unless the R1 line starts with '@', '+' or '!'
taken_as_sequence(line) ==
    ~startswith(line, "@") /\ ~startswith(line, "+") /\ ~startswith(line, "!")

\* dict(spacer_counts) of process_spacers
spacer_counts(all_spacers) ==
    [q \in Range(all_spacers) |->
        Cardinality({i \in 1..Len(all_spacers) : all_spacers[i] = q})]

\* mutant: the empty strings are put in front of the hits
Padded_in_front(found) == [i \in 1..(3 - Len(found)) |-> << >>] \o found

\* found + [''] * (3 - len(found))
Padded(found) == found \o [i \in 1..(3 - Len(found)) |-> << >>]

DescribeFields ==
    LET dr == << "d", "r" >>
        spacer == << "s", "p", "a", "c", "e", "r" >>
    IN  << << "i", "n", "d", "e", "x" >> >>
            \o [i \in 1..3 |-> dr \o ToDigits(i)]
            \o [i \in 1..3 |-> spacer \o ToDigits(i)]
            \o [i \in 1..3 |-> dr \o ToDigits(i + 3)]
            \o [i \in 1..3 |-> spacer \o ToDigits(i + 3)]

\* '\t'.join(fields) + '\n'
TsvLine(fields) ==
    LET RECURSIVE join(_)
        join(w) == IF Len(w) = 1 THEN w[1] ELSE w[1] \o << "\t" >> \o join(Tail(w))
    IN  join(fields) \o << "\n" >>

\* the row describe_reads writes for the lines at 0-based index idx
describe_row(idx, r1, r2, tt, ct) ==
    LET r1_drs == find_constants(r1, ct, 3)
        r1_spacers == Take(find_spacers_in_tuple_table(r1, tt), 3)
        r2_drs == Reverse(find_constants(r2, ct, 3))
        r2_spacers == Reverse(Take(find_spacers_in_tuple_table(r2, tt), 3))
    IN  TsvLine(<< ToDigits(idx) >> \o Padded(r1_drs) \o Padded(r1_spacers)
                    \o Padded(r2_drs) \o Padded(r2_spacers))

\* f">cid_{construct.cid}\n{construct.sequence()}\n"
fasta_record(K) ==
    << ">", "c", "i", "d", "_" >> \o ToDigits(K.construct_id) \o << "\n" >>
        \o sequence(K) \o << "\n" >>

(***************************************************************************)
(* The tables before they are constructed                                  *)
(***************************************************************************)
NoTupleTable ==
    [spacer_set |-> {}, spacer_length |-> 0, spacer_count |-> 0,
     tuple_map_4 |-> EmptyMap, tuple_map_6 |-> EmptyMap]

NoConstantTable == [constant_map |-> EmptyMap, k |-> 0]

NoSpacerTable == [spacer_set |-> {}, spacer_length |-> 0]

(***************************************************************************)
(* Initial states                                                          *)
(***************************************************************************)
InitCommand ==
    /\ pc = "start"
    /\ spacers = << >>
    /\ constants = << >>
    /\ constructs = << >>
    /\ r1_table = EmptyMap
    /\ r2_table = EmptyMap
    /\ r1_f = << >>
    /\ r2_f = << >>
    /\ total_reads = 0
    /\ mapped_reads = 0
    /\ counts = EmptyMap
    /\ r1_seq = << >>
    /\ r2_seq = << >>
    /\ matched_cid = None
    /\ warnings = 0
    /\ summary = << >>
    /\ self_constructs = << >>
    /\ tuple_table = NoTupleTable
    /\ constant_table = NoConstantTable
    /\ spacer_table = NoSpacerTable
    /\ line_idx = 0
    /\ output = << >>
    /\ reports = << >>

\* no KmerIter exists before one is constructed
NoKmerIter == [sequence |-> << >>, k |-> 0, pos |-> 0]

\* no direct call is made or prepared
InitRest ==
    /\ InitCommand
    /\ arg_sequence = << >>
    /\ arg_k = None
    /\ arg_max_count = None
    /\ kmer_iter = NoKmerIter
    /\ yielded = << >>
    /\ returned = << >>

\* libraries of the constructs command: 4-plex and 6-plex files
Init ==
    /\ \E P \in {4, 6}, N \in 1..MaxStreamGroups, l \in Layouts :
         \E tmpl \in [1..N -> Templates] :
            /\ spacer_rows = Layout(SpacerFile(P, tmpl, 0, 0), l)
            /\ constant_rows = Layout(ConstantFile(P), l)
    /\ command = "constructs"
    /\ InitRest

\* library files of every shape build_constructs can be given
InitBuild ==
    /\ \E P \in 3..MaxPlexity, N \in 1..MaxGroups, l \in Layouts,
          first \in 0..MaxFirstCid, trailing \in 0..MaxTrailing,
          extra \in 0..MaxExtraConstants :
         \E tmpl \in [1..N -> Templates] :
            /\ spacer_rows = Layout(SpacerFile(P, tmpl, first, trailing), l)
            /\ constant_rows = Layout(ConstantFile(P + extra), l)
    /\ command = "build"
    /\ InitRest

(***************************************************************************)
(* Actions                                                                 *)
(***************************************************************************)
LoadSpacers ==
    /\ UNCHANGED cmdvars
    /\ pc = "start"
    /\ spacers' = load_spacers(spacer_rows)
    /\ pc' = "spacers_loaded"
    /\ UNCHANGED << spacer_rows, constant_rows, constants, constructs, r1_table,
                    r2_table, r1_f, r2_f, total_reads, mapped_reads, counts,
                    r1_seq, r2_seq, matched_cid, warnings, summary >>

LoadConstants ==
    /\ UNCHANGED cmdvars
    /\ pc = "spacers_loaded"
    /\ command \in {"constructs", "build", "describe", "api"}
    /\ constants' = load_constants(constant_rows)
    /\ pc' = "loaded"
    /\ UNCHANGED << spacer_rows, constant_rows, spacers, constructs, r1_table,
                    r2_table, r1_f, r2_f, total_reads, mapped_reads, counts,
                    r1_seq, r2_seq, matched_cid, warnings, summary >>

\* build_constructs(spacers, constants): ValueError, or the constructs and
\* the two probe tables
BuildConstructs ==
    /\ UNCHANGED cmdvars
    /\ pc = "loaded"
    /\ command \in {"constructs", "build", "api"}
    /\ IF spacer_count(spacers) = 0
       THEN /\ pc' = "error"
            /\ UNCHANGED << constructs, r1_table, r2_table >>
       ELSE /\ pc' = "built"
            /\ constructs' = chunk_constructs(spacers, constants)
            /\ r1_table' = table_add(r1_table,
                   {<< get_r1_sequence(K), K.construct_id >> :
                        K \in Range(chunk_constructs(spacers, constants))})
            /\ r2_table' = table_add(r2_table,
                   {<< get_r2_sequence(K), K.construct_id >> :
                        K \in Range(chunk_constructs(spacers, constants))})
    /\ UNCHANGED << spacer_rows, constant_rows, spacers, constants, r1_f, r2_f,
                    total_reads, mapped_reads, counts, r1_seq, r2_seq,
                    matched_cid, warnings, summary >>

\* Construct(spacers, constants, 0) made directly from the lists, and its
\* two probes (tests/test_plexity.py)
ConstructProbes ==
    /\ UNCHANGED cmdvars
    /\ pc = "loaded"
    /\ constructs' = << Construct(spacers, constants, 0) >>
    /\ r1_seq' = get_r1_sequence(Construct(spacers, constants, 0))
    /\ r2_seq' = get_r2_sequence(Construct(spacers, constants, 0))
    /\ pc' = "probed"
    /\ UNCHANGED << spacer_rows, constant_rows, spacers, constants, r1_table,
                    r2_table, r1_f, r2_f, total_reads, mapped_reads, counts,
                    matched_cid, warnings, summary >>

\* process_constructs opens the two files with empty tallies
OpenStreams ==
    /\ UNCHANGED cmdvars
    /\ pc = "built"
    /\ constructs # << >>
    /\ \E n \in 0..MaxPairs :
         \E recs \in [1..n -> PairPool(constructs)] :
            /\ r1_f' = FastqLines(recs, 1)
            /\ r2_f' = FastqLines(recs, 2)
    /\ counts' = EmptyMap
    /\ total_reads' = 0
    /\ mapped_reads' = 0
    /\ pc' = "streaming"
    /\ UNCHANGED << spacer_rows, constant_rows, spacers, constants, constructs,
                    r1_table, r2_table, r1_seq, r2_seq, matched_cid, warnings,
                    summary >>

\* mutant: the R1 read is looked up by indexing the defaultdict, which adds
\* the read as a key with an empty id set
ProcessLine_indexing_r1_table ==
    /\ UNCHANGED cmdvars
    /\ pc = "streaming"
    /\ total_reads < zip_length(r1_f, r2_f)
    /\ total_reads' = total_reads + 1
    /\ IF is_sequence_line(total_reads + 1)
       THEN LET r1 == Strip(r1_f[total_reads + 1])
                r2 == Strip(r2_f[total_reads + 1])
                cid == find_matching_construct(r1, r2, r1_table, r2_table)
            IN  /\ r1_seq' = r1
                /\ r2_seq' = r2
                /\ matched_cid' = cid
                /\ r1_table' = table_add(r1_table, {}) @@ (r1 :> {})
                /\ warnings' = IF ambiguous_warning(r1, r2, r1_table, r2_table)
                               THEN warnings + 1 ELSE warnings
                /\ IF cid # None
                   THEN /\ counts' = count_hit(counts, cid)
                        /\ mapped_reads' = mapped_reads + 1
                   ELSE UNCHANGED << counts, mapped_reads >>
       ELSE UNCHANGED << r1_seq, r2_seq, matched_cid, warnings, counts,
                         mapped_reads, r1_table >>
    /\ UNCHANGED << pc, spacer_rows, constant_rows, spacers, constants,
                    constructs, r2_table, r1_f, r2_f, summary >>

\* one iteration of: for r1_bytes, r2_bytes in zip(r1_f, r2_f)
ProcessLine ==
    /\ UNCHANGED cmdvars
    /\ pc = "streaming"
    /\ total_reads < zip_length(r1_f, r2_f)
    /\ total_reads' = total_reads + 1
    /\ IF is_sequence_line(total_reads + 1)
       THEN LET r1 == Strip(r1_f[total_reads + 1])
                r2 == Strip(r2_f[total_reads + 1])
                cid == find_matching_construct(r1, r2, r1_table, r2_table)
            IN  /\ r1_seq' = r1
                /\ r2_seq' = r2
                /\ matched_cid' = cid
                /\ warnings' = IF ambiguous_warning(r1, r2, r1_table, r2_table)
                               THEN warnings + 1 ELSE warnings
                /\ IF cid # None
                   THEN /\ counts' = count_hit(counts, cid)
                        /\ mapped_reads' = mapped_reads + 1
                   ELSE UNCHANGED << counts, mapped_reads >>
       ELSE UNCHANGED << r1_seq, r2_seq, matched_cid, warnings, counts,
                         mapped_reads >>
    /\ UNCHANGED << pc, spacer_rows, constant_rows, spacers, constants,
                    constructs, r1_table, r2_table, r1_f, r2_f, summary >>

\* the three prints after the loop; the mapping rate divides by
\* total_reads // 4, so no complete record raises ZeroDivisionError
Summary ==
    /\ UNCHANGED cmdvars
    /\ pc = "streaming"
    /\ total_reads = zip_length(r1_f, r2_f)
    /\ IF total_reads \div 4 = 0
       THEN /\ pc' = "raised"
            /\ summary' = << total_reads \div 4, mapped_reads >>
       ELSE /\ pc' = "done"
            /\ summary' = << total_reads \div 4, mapped_reads >>
    /\ UNCHANGED << spacer_rows, constant_rows, spacers, constants, constructs,
                    r1_table, r2_table, r1_f, r2_f, total_reads, mapped_reads,
                    counts, r1_seq, r2_seq, matched_cid, warnings >>

Next ==
    \/ LoadSpacers
    \/ LoadConstants
    \/ BuildConstructs
    \/ OpenStreams
    \/ ProcessLine
    \/ Summary

Spec == Init /\ [][Next]_vars

NextBuild ==
    \/ LoadSpacers
    \/ LoadConstants
    \/ BuildConstructs
    \/ ConstructProbes

SpecBuild == InitBuild /\ [][NextBuild]_vars

(***************************************************************************)
(* The counting commands of main: constructs and tuples, from the library  *)
(* files to the saved counts                                               *)
(***************************************************************************)
RunTemplates == {"base", "gc"}

\* words joined left to right with sep between them
RECURSIVE Joined(_, _)
Joined(words, sep) ==
    IF words = << >> THEN << >>
    ELSE IF Len(words) = 1 THEN words[1]
    ELSE words[1] \o sep \o Joined(Tail(words), sep)

\* the spacer sequences of construct id cid, in vid order
GroupWords(sp, cid) ==
    [i \in 1..Len(spacer_group(sp, cid)) |-> spacer_group(sp, cid)[i].sequence]

\* read pairs offered to the tuples command, made of the spacers of the first
\* and the last construct id of the library (a first and b second half):
\*   the halves of the last id, T between the spacers, R1 flanked
\*   the halves of the first id, A between the spacers
\*   the first half of the first id in reverse order
\*   both ids in R1, and both in the other order in R2
TuplePool(sp) ==
    LET first == GroupWords(sp, sp[1].cid)
        last == GroupWords(sp, sp[Len(sp)].cid)
        h == Len(first) \div 2
        a(w) == Take(w, h)
        b(w) == From(w, h)
        T == << "T" >>
    IN  { << << "G" >> \o Joined(a(last), T) \o T, Joined(b(last), T) >>,
          << Joined(a(first), << "A" >>), Joined(b(first), << "A" >>) >>,
          << Joined(Reverse(a(first)), T), Joined(b(first), T) >>,
          << Joined(a(first), T) \o T \o Joined(a(last), T),
             Joined(b(last), T) \o T \o Joined(b(first), T) >> }

\* read pairs offered to the constructs command: the perfect pairs of the
\* first and the last construct, a perfect pair whose R1 starts with N, noise
ProbePool(cs) ==
    { Perfect(cs[1]), Perfect(cs[Len(cs)]),
      << << "N" >> \o get_r1_sequence(cs[1]), get_r2_sequence(cs[1]) >>,
      Noise }

InitMain ==
    /\ \E P \in {3, 4, 6}, N \in 1..MaxRunGroups :
         \E tmpl \in [1..N -> RunTemplates] :
            /\ spacer_rows = SpacerFile(P, tmpl, 0, 0)
            /\ constant_rows = ConstantFile(P)
    /\ command \in {"constructs", "tuples"}
    /\ InitRest

\* tuple_table = TupleTable(spacers)
BuildTupleTable ==
    /\ UNCHANGED callvars
    /\ pc = "spacers_loaded"
    /\ command = "tuples"
    /\ tuple_table' = TupleTable(spacers)
    /\ pc' = "tabled"
    /\ UNCHANGED << spacer_rows, constant_rows, spacers, constants, constructs,
                    r1_table, r2_table, r1_f, r2_f, total_reads, mapped_reads,
                    counts, r1_seq, r2_seq, matched_cid, warnings, summary,
                    command, self_constructs, constant_table, spacer_table,
                    line_idx, output, reports >>

\* process_constructs / process_tuples open the two files with empty tallies;
\* one of the files may end earlier than the other, at any line
OpenFastq ==
    /\ UNCHANGED callvars
    /\ \/ command = "constructs" /\ pc = "built" /\ constructs # << >>
       \/ command = "tuples" /\ pc = "tabled" /\ spacers # << >>
    /\ \E n \in 0..MaxRunPairs, side \in {1, 2} :
         \E recs \in [1..n -> IF command = "constructs"
                              THEN ProbePool(constructs)
                              ELSE TuplePool(spacers)] :
            \E keep \in 0..(4 * n) :
               /\ r1_f' = IF side = 1 THEN Take(FastqLines(recs, 1), keep)
                          ELSE FastqLines(recs, 1)
               /\ r2_f' = IF side = 2 THEN Take(FastqLines(recs, 2), keep)
                          ELSE FastqLines(recs, 2)
    /\ counts' = EmptyMap
    /\ total_reads' = 0
    /\ mapped_reads' = 0
    /\ pc' = IF command = "constructs" THEN "streaming" ELSE "tuples_streaming"
    /\ UNCHANGED << spacer_rows, constant_rows, spacers, constants, constructs,
                    r1_table, r2_table, r1_seq, r2_seq, matched_cid, warnings,
                    summary, command, self_constructs, tuple_table,
                    constant_table, spacer_table, line_idx, output, reports >>

\* one iteration of the zip loop of process_tuples
ProcessTuplesLine ==
    /\ UNCHANGED callvars
    /\ pc = "tuples_streaming"
    /\ total_reads < zip_length(r1_f, r2_f)
    /\ total_reads' = total_reads + 1
    /\ IF is_sequence_line(total_reads + 1)
       THEN LET r1 == Strip(r1_f[total_reads + 1])
                r2 == Strip(r2_f[total_reads + 1])
                cid == find_matching_tuple(r1, r2, tuple_table)
            IN  /\ r1_seq' = r1
                /\ r2_seq' = r2
                /\ matched_cid' = cid
                /\ IF cid # None
                   THEN /\ counts' = count_hit(counts, cid)
                        /\ mapped_reads' = mapped_reads + 1
                   ELSE UNCHANGED << counts, mapped_reads >>
       ELSE UNCHANGED << r1_seq, r2_seq, matched_cid, counts, mapped_reads >>
    /\ UNCHANGED << pc, spacer_rows, constant_rows, spacers, constants,
                    constructs, r1_table, r2_table, r1_f, r2_f, warnings,
                    summary, command, self_constructs, tuple_table,
                    constant_table, spacer_table, line_idx, output, reports >>

\* the three prints after the loop of process_tuples; the mapping rate
\* divides by total_reads // 4
TuplesSummary ==
    /\ UNCHANGED callvars
    /\ pc = "tuples_streaming"
    /\ total_reads = zip_length(r1_f, r2_f)
    /\ pc' = IF total_reads \div 4 = 0 THEN "raised" ELSE "done"
    /\ summary' = << total_reads \div 4, mapped_reads >>
    /\ UNCHANGED << spacer_rows, constant_rows, spacers, constants, constructs,
                    r1_table, r2_table, r1_f, r2_f, total_reads, mapped_reads,
                    counts, r1_seq, r2_seq, matched_cid, warnings, command,
                    self_constructs, tuple_table, constant_table, spacer_table,
                    line_idx, output, reports >>

\* pycasmap.save_results(counts, args.output)
SaveResults ==
    /\ UNCHANGED callvars
    /\ pc = "done"
    /\ command \in {"constructs", "tuples"}
    /\ output' = save_results(counts)
    /\ pc' = "saved"
    /\ UNCHANGED << spacer_rows, constant_rows, spacers, constants, constructs,
                    r1_table, r2_table, r1_f, r2_f, total_reads, mapped_reads,
                    counts, r1_seq, r2_seq, matched_cid, warnings, summary,
                    command, self_constructs, tuple_table, constant_table,
                    spacer_table, line_idx, reports >>

NextMain ==
    \/ LoadSpacers
    \/ LoadConstants
    \/ BuildConstructs
    \/ BuildTupleTable
    \/ OpenFastq
    \/ ProcessLine
    \/ ProcessTuplesLine
    \/ Summary
    \/ TuplesSummary
    \/ SaveResults

SpecMain == InitMain /\ [][NextMain]_vars

(***************************************************************************)
(* The spacers, describe and build commands of main                        *)
(***************************************************************************)
\* one FASTQ file whose quality lines are made of the record's quality
\* character (third component)
FastqLinesQ(recs, side) ==
    [k \in 1..(4 * Len(recs)) |->
        LET rec == recs[((k - 1) \div 4) + 1]
            pos == (k - 1) % 4
        IN  CASE pos = 0 -> << "@", "r", "\n" >>
              [] pos = 1 -> rec[side] \o << "\n" >>
              [] pos = 2 -> << "+", "\n" >>
              [] pos = 3 -> [i \in 1..Len(rec[side]) |-> rec[3]] \o << "\n" >>]

\* read pairs offered to spacers and describe: the tuple reads, and the full
\* sequence of the first construct id (its spacers alone when no constants
\* were loaded) with its reverse complement
ReportPool(sp, co) ==
    LET full == IF co = << >> THEN Joined(GroupWords(sp, sp[1].cid), << >>)
                ELSE build_sequence(spacer_group(sp, sp[1].cid), co)
    IN  TuplePool(sp) \cup { << full, reverse_complement(full) >> }

InitReport ==
    /\ \E P \in {3, 4, 6}, N \in 1..MaxReportGroups :
         \E tmpl \in [1..N -> RunTemplates] :
            /\ spacer_rows = SpacerFile(P, tmpl, 0, 0)
            /\ constant_rows = ConstantFile(P)
    /\ command \in {"spacers", "describe", "build"}
    /\ InitRest

\* spacer_table = SpacerTable(spacers)
BuildSpacerTable ==
    /\ UNCHANGED callvars
    /\ pc = "spacers_loaded"
    /\ command = "spacers"
    /\ spacer_table' = SpacerTable(spacers)
    /\ pc' = "tabled"
    /\ UNCHANGED << spacer_rows, constant_rows, spacers, constants, constructs,
                    r1_table, r2_table, r1_f, r2_f, total_reads, mapped_reads,
                    counts, r1_seq, r2_seq, matched_cid, warnings, summary,
                    command, self_constructs, tuple_table, constant_table,
                    line_idx, output, reports >>

\* tuple_table = TupleTable(spacers); constant_table = ConstantTable(constants)
BuildDescribeTables ==
    /\ UNCHANGED callvars
    /\ pc = "loaded"
    /\ command = "describe"
    /\ tuple_table' = TupleTable(spacers)
    /\ constant_table' = ConstantTable(constants)
    /\ pc' = "tabled"
    /\ UNCHANGED << spacer_rows, constant_rows, spacers, constants, constructs,
                    r1_table, r2_table, r1_f, r2_f, total_reads, mapped_reads,
                    counts, r1_seq, r2_seq, matched_cid, warnings, summary,
                    command, self_constructs, spacer_table, line_idx, output,
                    reports >>

\* process_spacers / describe_reads open the two files; describe_reads has
\* written the header line before
OpenReport ==
    /\ UNCHANGED callvars
    /\ pc = "tabled"
    /\ command \in {"spacers", "describe"}
    /\ spacers # << >>
    /\ \E n \in 0..MaxReportPairs :
         \E recs \in [1..n -> {<< rp[1], rp[2], q >> :
                                  rp \in ReportPool(spacers, constants),
                                  q \in {"I", "!"}}] :
            /\ r1_f' = FastqLinesQ(recs, 1)
            /\ r2_f' = FastqLinesQ(recs, 2)
    /\ output' = IF command = "describe" THEN << TsvLine(DescribeFields) >> ELSE output
    /\ line_idx' = 0
    /\ pc' = "reporting"
    /\ UNCHANGED << spacer_rows, constant_rows, spacers, constants, constructs,
                    r1_table, r2_table, total_reads, mapped_reads, counts,
                    r1_seq, r2_seq, matched_cid, warnings, summary, command,
                    self_constructs, tuple_table, constant_table, spacer_table,
                    reports >>

\* one iteration of the zip loop of process_spacers
ProcessSpacersLine ==
    /\ UNCHANGED callvars
    /\ pc = "reporting"
    /\ command = "spacers"
    /\ line_idx < zip_length(r1_f, r2_f)
    /\ line_idx' = line_idx + 1
    /\ IF taken_as_sequence(r1_f[line_idx + 1])
       THEN LET r1 == Strip(r1_f[line_idx + 1])
                r2 == Strip(r2_f[line_idx + 1])
            IN  /\ r1_seq' = r1
                /\ r2_seq' = r2
                /\ reports' = Append(reports,
                       spacer_counts(find_spacers(r1, spacer_table)
                                        \o find_spacers(r2, spacer_table)))
       ELSE UNCHANGED << r1_seq, r2_seq, reports >>
    /\ UNCHANGED << pc, spacer_rows, constant_rows, spacers, constants,
                    constructs, r1_table, r2_table, r1_f, r2_f, total_reads,
                    mapped_reads, counts, matched_cid, warnings, summary,
                    command, self_constructs, tuple_table, constant_table,
                    spacer_table, output >>

\* one iteration of the enumerate(zip(...)) loop of describe_reads
DescribeLine ==
    /\ UNCHANGED callvars
    /\ pc = "reporting"
    /\ command = "describe"
    /\ line_idx < zip_length(r1_f, r2_f)
    /\ line_idx' = line_idx + 1
    /\ IF taken_as_sequence(r1_f[line_idx + 1])
       THEN LET r1 == Strip(r1_f[line_idx + 1])
                r2 == Strip(r2_f[line_idx + 1])
            IN  /\ r1_seq' = r1
                /\ r2_seq' = r2
                /\ output' = Append(output,
                       describe_row(line_idx, r1, r2, tuple_table, constant_table))
       ELSE UNCHANGED << r1_seq, r2_seq, output >>
    /\ UNCHANGED << pc, spacer_rows, constant_rows, spacers, constants,
                    constructs, r1_table, r2_table, r1_f, r2_f, total_reads,
                    mapped_reads, counts, matched_cid, warnings, summary,
                    command, self_constructs, tuple_table, constant_table,
                    spacer_table, reports >>

\* the end of the two files: process_spacers / describe_reads return
ReportEnd ==
    /\ UNCHANGED callvars
    /\ pc = "reporting"
    /\ line_idx = zip_length(r1_f, r2_f)
    /\ pc' = "done"
    /\ UNCHANGED << spacer_rows, constant_rows, spacers, constants, constructs,
                    r1_table, r2_table, r1_f, r2_f, total_reads, mapped_reads,
                    counts, r1_seq, r2_seq, matched_cid, warnings, summary,
                    command, self_constructs, tuple_table, constant_table,
                    spacer_table, line_idx, output, reports >>

\* the build command of main after build_constructs: the output file is
\* opened for writing, and the first record calls construct.cid(), where cid
\* is a property whose value is an int: TypeError before anything is written
WriteFasta ==
    /\ UNCHANGED callvars
    /\ pc = "built"
    /\ command = "build"
    /\ output' = << >>
    /\ pc' = IF constructs = << >> THEN "done" ELSE "raised"
    /\ UNCHANGED << spacer_rows, constant_rows, spacers, constants, constructs,
                    r1_table, r2_table, r1_f, r2_f, total_reads, mapped_reads,
                    counts, r1_seq, r2_seq, matched_cid, warnings, summary,
                    command, self_constructs, tuple_table, constant_table,
                    spacer_table, line_idx, reports >>

\* PyCasMap.build_construct_sequences called after build_constructs: one
\* record per element of self.constructs, which build_constructs left as it was
BuildConstructSequences ==
    /\ UNCHANGED callvars
    /\ pc = "built"
    /\ command = "build"
    /\ output' = [k \in 1..Len(self_constructs) |-> fasta_record(self_constructs[k])]
    /\ pc' = "done"
    /\ UNCHANGED << spacer_rows, constant_rows, spacers, constants, constructs,
                    r1_table, r2_table, r1_f, r2_f, total_reads, mapped_reads,
                    counts, r1_seq, r2_seq, matched_cid, warnings, summary,
                    command, self_constructs, tuple_table, constant_table,
                    spacer_table, line_idx, reports >>

NextReport ==
    \/ LoadSpacers
    \/ LoadConstants
    \/ BuildConstructs
    \/ BuildSpacerTable
    \/ BuildDescribeTables
    \/ OpenReport
    \/ ProcessSpacersLine
    \/ DescribeLine
    \/ ReportEnd
    \/ WriteFasta
    \/ BuildConstructSequences

SpecReport == InitReport /\ [][NextReport]_vars

(***************************************************************************)
(* Direct calls of the functions of core.py on a loaded library, the way   *)
(* tests/test_core.py and tests/test_plexity.py call them                  *)
(***************************************************************************)
MaxSequenceLen == 3   \* characters of the string a call is given
MaxK == 2             \* k of a KmerIter
MaxCount == 2         \* max_count of _find_spacers
MaxCallGroups == 1    \* construct ids in the libraries of the direct calls

\* two upper-case nucleotides, a lower-case one, and a character that is no
\* nucleotide
CallAlphabet == {"A", "C", "g", "N"}

CallSequences == UNION {[1..n -> CallAlphabet] : n \in 0..MaxSequenceLen}

CallTemplates == {"base", "gc", "long"}

\* constant TSV of two-character constants AT, TA, AT, ...
PairedConstantFile(n) ==
    [k \in 1..n |->
        << IF k % 2 = 1 THEN << "A", "T" >> ELSE << "T", "A" >>, ToDigits(k - 1) >>]

\* KmerIter.__init__
kmer_iter_new(seq, k) == [sequence |-> seq, k |-> k, pos |-> 0]

\* mutant: the iterator stops one position early
kmer_stop_one_early(it) == it.pos + it.k >= Len(it.sequence)

\* KmerIter.__next__: the condition of `raise StopIteration`
kmer_stop(it) == it.pos + it.k > Len(it.sequence)

\* KmerIter.__next__: self.sequence[self.pos:self.pos + self.k]
kmer_next(it) == SubSeq(it.sequence, it.pos + 1, it.pos + it.k)

\* mutant: the loop breaks one spacer after max_count was reached
cap_reached_one_late(found, max_count) ==
    max_count # None /\ max_count # 0 /\ Len(found) > max_count

\* _find_spacers: `max_count and len(spacers) >= max_count`
cap_reached(found, max_count) ==
    max_count # None /\ max_count # 0 /\ Len(found) >= max_count

\* the for loop of _find_spacers from the i-th k-mer on, `found` being the
\* list spacers so far
RECURSIVE find_spacers_loop(_, _, _, _, _)
find_spacers_loop(kmers, i, st, max_count, found) ==
    IF i > Len(kmers) THEN found
    ELSE IF kmers[i] \in st.spacer_set /\ kmers[i] # << >>
         THEN IF cap_reached(Append(found, kmers[i]), max_count)
              THEN Append(found, kmers[i])
              ELSE find_spacers_loop(kmers, i + 1, st, max_count,
                                     Append(found, kmers[i]))
         ELSE find_spacers_loop(kmers, i + 1, st, max_count, found)

\* _find_spacers(sequence, spacer_table, max_count)
find_spacers_max_count(seq, st, max_count) ==
    find_spacers_loop(KmerIter(seq, st.spacer_length), 1, st, max_count, << >>)

InitCalls ==
    /\ \E P \in {4, 6}, N \in 1..MaxCallGroups :
         \E tmpl \in [1..N -> CallTemplates] :
            /\ spacer_rows = SpacerFile(P, tmpl, 0, 0)
            /\ constant_rows = PairedConstantFile(P)
    /\ command = "api"
    /\ InitCommand
    /\ arg_sequence \in CallSequences
    /\ arg_k = None
    /\ arg_max_count = None
    /\ kmer_iter = NoKmerIter
    /\ yielded = << >>
    /\ returned = << >>

\* SpacerTable(spacers) and TupleTable(spacers) of the built library
MakeTables ==
    /\ pc = "built"
    /\ command = "api"
    /\ spacer_table' = SpacerTable(spacers)
    /\ tuple_table' = TupleTable(spacers)
    /\ pc' = "ready"
    /\ UNCHANGED << spacer_rows, constant_rows, spacers, constants, constructs,
                    r1_table, r2_table, r1_f, r2_f, total_reads, mapped_reads,
                    counts, r1_seq, r2_seq, matched_cid, warnings, summary,
                    command, self_constructs, constant_table, line_idx, output,
                    reports, callvars >>

\* construct._reverse_complement(sequence)
ReverseComplementCall ==
    /\ pc = "ready"
    /\ returned' = reverse_complement(arg_sequence)
    /\ pc' = "complemented"
    /\ UNCHANGED << spacer_rows, constant_rows, spacers, constants, constructs,
                    r1_table, r2_table, r1_f, r2_f, total_reads, mapped_reads,
                    counts, r1_seq, r2_seq, matched_cid, warnings, summary,
                    command, self_constructs, tuple_table, constant_table,
                    spacer_table, line_idx, output, reports, arg_sequence,
                    arg_k, arg_max_count, kmer_iter, yielded >>

\* construct._reverse_complement of the string the first call returned
ReverseComplementBack ==
    /\ pc = "complemented"
    /\ returned' = reverse_complement(returned)
    /\ pc' = "complemented_back"
    /\ UNCHANGED << spacer_rows, constant_rows, spacers, constants, constructs,
                    r1_table, r2_table, r1_f, r2_f, total_reads, mapped_reads,
                    counts, r1_seq, r2_seq, matched_cid, warnings, summary,
                    command, self_constructs, tuple_table, constant_table,
                    spacer_table, line_idx, output, reports, arg_sequence,
                    arg_k, arg_max_count, kmer_iter, yielded >>

\* KmerIter(sequence, k)
NewKmerIter ==
    /\ pc = "ready"
    /\ \E k \in 1..MaxK :
          /\ arg_k' = k
          /\ kmer_iter' = kmer_iter_new(arg_sequence, k)
    /\ yielded' = << >>
    /\ pc' = "iterating"
    /\ UNCHANGED << spacer_rows, constant_rows, spacers, constants, constructs,
                    r1_table, r2_table, r1_f, r2_f, total_reads, mapped_reads,
                    counts, r1_seq, r2_seq, matched_cid, warnings, summary,
                    command, self_constructs, tuple_table, constant_table,
                    spacer_table, line_idx, output, reports, arg_sequence,
                    arg_max_count, returned >>

\* one __next__ of the iterator inside a for loop: a k-mer, or StopIteration
\* and the end of the loop
KmerNext ==
    /\ pc \in {"iterating", "iterating_again"}
    /\ IF kmer_stop(kmer_iter)
       THEN /\ pc' = IF pc = "iterating" THEN "iterated" ELSE "iterated_again"
            /\ UNCHANGED << kmer_iter, yielded >>
       ELSE /\ yielded' = Append(yielded, kmer_next(kmer_iter))
            /\ kmer_iter' = [kmer_iter EXCEPT !.pos = @ + 1]
            /\ pc' = pc
    /\ UNCHANGED << spacer_rows, constant_rows, spacers, constants, constructs,
                    r1_table, r2_table, r1_f, r2_f, total_reads, mapped_reads,
                    counts, r1_seq, r2_seq, matched_cid, warnings, summary,
                    command, self_constructs, tuple_table, constant_table,
                    spacer_table, line_idx, output, reports, arg_sequence,
                    arg_k, arg_max_count, returned >>

\* a second KmerIter(sequence, k) over the same arguments; the list of the
\* first one is kept
SecondKmerIter ==
    /\ pc = "iterated"
    /\ returned' = yielded
    /\ kmer_iter' = kmer_iter_new(arg_sequence, arg_k)
    /\ yielded' = << >>
    /\ pc' = "iterating_again"
    /\ UNCHANGED << spacer_rows, constant_rows, spacers, constants, constructs,
                    r1_table, r2_table, r1_f, r2_f, total_reads, mapped_reads,
                    counts, r1_seq, r2_seq, matched_cid, warnings, summary,
                    command, self_constructs, tuple_table, constant_table,
                    spacer_table, line_idx, output, reports, arg_sequence,
                    arg_k, arg_max_count >>

\* _find_spacers(sequence, spacer_table) and
\* _find_spacers(sequence, spacer_table, max_count)
FindSpacersCall ==
    /\ pc = "ready"
    /\ \E m \in {None} \cup (0..MaxCount) :
          /\ arg_max_count' = m
          /\ returned' = find_spacers_max_count(arg_sequence, spacer_table, m)
    /\ pc' = "found"
    /\ UNCHANGED << spacer_rows, constant_rows, spacers, constants, constructs,
                    r1_table, r2_table, r1_f, r2_f, total_reads, mapped_reads,
                    counts, r1_seq, r2_seq, matched_cid, warnings, summary,
                    command, self_constructs, tuple_table, constant_table,
                    spacer_table, line_idx, output, reports, arg_sequence,
                    arg_k, kmer_iter, yielded >>

\* _find_spacers_in_tuple_table(sequence, tuple_table)
FindSpacersInTupleTableCall ==
    /\ pc = "ready"
    /\ returned' = find_spacers_in_tuple_table(arg_sequence, tuple_table)
    /\ pc' = "found_in_tuple_table"
    /\ UNCHANGED << spacer_rows, constant_rows, spacers, constants, constructs,
                    r1_table, r2_table, r1_f, r2_f, total_reads, mapped_reads,
                    counts, r1_seq, r2_seq, matched_cid, warnings, summary,
                    command, self_constructs, tuple_table, constant_table,
                    spacer_table, line_idx, output, reports, arg_sequence,
                    arg_k, arg_max_count, kmer_iter, yielded >>

\* _find_matching_construct on the two probes of one construct, R2 as the
\* construct gives it or complemented back to the orientation of the spacers
MatchConstructCall ==
    /\ pc = "ready"
    /\ \E i \in 1..Len(constructs), back \in BOOLEAN :
          LET r1 == get_r1_sequence(constructs[i])
              r2 == IF back THEN reverse_complement(get_r2_sequence(constructs[i]))
                    ELSE get_r2_sequence(constructs[i])
          IN  /\ r1_seq' = r1
              /\ r2_seq' = r2
              /\ matched_cid' = find_matching_construct(r1, r2, r1_table, r2_table)
    /\ pc' = "matched"
    /\ UNCHANGED << spacer_rows, constant_rows, spacers, constants, constructs,
                    r1_table, r2_table, r1_f, r2_f, total_reads, mapped_reads,
                    counts, warnings, summary, command, self_constructs,
                    tuple_table, constant_table, spacer_table, line_idx, output,
                    reports, callvars >>

\* _find_matching_tuple on the same two sequences
MatchTupleCall ==
    /\ pc = "matched"
    /\ returned' = find_matching_tuple(r1_seq, r2_seq, tuple_table)
    /\ pc' = "matched_tuple"
    /\ UNCHANGED << spacer_rows, constant_rows, spacers, constants, constructs,
                    r1_table, r2_table, r1_f, r2_f, total_reads, mapped_reads,
                    counts, r1_seq, r2_seq, matched_cid, warnings, summary,
                    command, self_constructs, tuple_table, constant_table,
                    spacer_table, line_idx, output, reports, arg_sequence,
                    arg_k, arg_max_count, kmer_iter, yielded >>

NextCalls ==
    \/ LoadSpacers
    \/ LoadConstants
    \/ BuildConstructs
    \/ MakeTables
    \/ ReverseComplementCall
    \/ ReverseComplementBack
    \/ NewKmerIter
    \/ KmerNext
    \/ SecondKmerIter
    \/ FindSpacersCall
    \/ FindSpacersInTupleTableCall
    \/ MatchConstructCall
    \/ MatchTupleCall

SpecCalls == InitCalls /\ [][NextCalls]_vars

(***************************************************************************)
(* The four commands that consume the FASTQ files, and build, together     *)
(***************************************************************************)
InitStream == InitMain \/ InitReport

NextStream ==
    \/ LoadSpacers
    \/ LoadConstants
    \/ BuildConstructs
    \/ BuildTupleTable
    \/ BuildSpacerTable
    \/ BuildDescribeTables
    \/ OpenFastq
    \/ OpenReport
    \/ ProcessLine
    \/ ProcessTuplesLine
    \/ ProcessSpacersLine
    \/ DescribeLine
    \/ Summary
    \/ TuplesSummary
    \/ ReportEnd
    \/ SaveResults
    \/ WriteFasta
    \/ BuildConstructSequences

SpecStream == InitStream /\ [][NextStream]_vars

(***************************************************************************)
(* What the claims speak of, stated from the constructs themselves         *)
(***************************************************************************)
\* construct K qualifies for a read pair: both of its probes occur in the reads
Qualifies(K, r1, r2) ==
    /\ Occurs(get_r1_sequence(K), r1)
    /\ Occurs(get_r2_sequence(K), r2)

QualifyingIds(r1, r2) ==
    {K.construct_id : K \in {X \in Range(constructs) : Qualifies(X, r1, r2)}}

\* the id of the only qualifying construct, or None
ExpectedMatch(r1, r2) ==
    IF Cardinality(QualifyingIds(r1, r2)) = 1
    THEN CHOOSE c \in QualifyingIds(r1, r2) : TRUE
    ELSE None

\* r1_seq, r2_seq and matched_cid hold the last classified record pair
ClassifiedState == pc \in {"streaming", "done"} /\ total_reads >= 2

\* the step that classifies the sequence lines of a record pair
ClassifyStep ==
    /\ pc = "streaming"
    /\ total_reads' = total_reads + 1
    /\ total_reads' % 4 = 2

NumPairs == zip_length(r1_f, r2_f) \div 4

\* the sequences of the i-th record pair of the two files
StreamPair(i) == << Strip(r1_f[4 * (i - 1) + 2]), Strip(r2_f[4 * (i - 1) + 2]) >>

PairsAssignedTo(c) ==
    {i \in 1..NumPairs : ExpectedMatch(StreamPair(i)[1], StreamPair(i)[2]) = c}

\* the counter holds, per construct id, the number of pairs assigned to it,
\* and no other key
TallyExact ==
    /\ DOMAIN counts =
         {c \in {K.construct_id : K \in Range(constructs)} : PairsAssignedTo(c) # {}}
    /\ \A c \in DOMAIN counts : counts[c] = Cardinality(PairsAssignedTo(c))
    /\ mapped_reads = NumPairs - Cardinality(PairsAssignedTo(None))

\* every record pair of the stream is the perfect pair of K
AllPerfect(K) ==
    /\ NumPairs >= 1
    /\ \A i \in 1..NumPairs : StreamPair(i) = Perfect(K)

(***************************************************************************)
(* C1: _find_matching_construct returns id c exactly when c's R1 probe     *)
(* occurs in r1, c's R2 probe occurs in r2 and no other construct id       *)
(* satisfies both; it returns no match in every other case.                *)
(***************************************************************************)
C1_ProbeMatchIff ==
    ClassifiedState =>
        /\ matched_cid \in {None} \cup {K.construct_id : K \in Range(constructs)}
        /\ \A c \in 0..Len(constructs) :
              (matched_cid = c) <=> (QualifyingIds(r1_seq, r2_seq) = {c})
        /\ (matched_cid = None) <=> (Cardinality(QualifyingIds(r1_seq, r2_seq)) # 1)

\* a pair whose reads contain, without being, the probes of one of several
\* constructs was classified as that construct
C1_Witness ==
    /\ ClassifiedState
    /\ Len(constructs) >= 2
    /\ matched_cid # None
    /\ \E K \in Range(constructs) :
          /\ K.construct_id = matched_cid
          /\ r1_seq # get_r1_sequence(K)
          /\ r2_seq # get_r2_sequence(K)

(***************************************************************************)
(* C2: for a construct C whose R1 and R2 probes are not shared with        *)
(* another construct, classifying the synthesized pair                     *)
(* (C.get_r1_sequence(), C.get_r2_sequence()) returns C.construct_id.      *)
(***************************************************************************)
ProbesNotShared(K) ==
    \A D \in Range(constructs) :
        D.construct_id # K.construct_id =>
            /\ get_r1_sequence(D) # get_r1_sequence(K)
            /\ get_r2_sequence(D) # get_r2_sequence(K)

C2_PerfectPairRoundTrip ==
    ClassifiedState =>
        \A K \in Range(constructs) :
            (<< r1_seq, r2_seq >> = Perfect(K) /\ ProbesNotShared(K))
                => matched_cid = K.construct_id

(***************************************************************************)
(* C3 (as stated): at the end of process_constructs the counter maps each  *)
(* construct id to the number of record pairs classified as it and has no  *)
(* other key, and N >= 1 copies of the perfect pair of any construct C     *)
(* give exactly {C.construct_id: N}.                                       *)
(***************************************************************************)
C3_PerfectCopiesAlwaysCounted ==
    pc = "done" =>
        /\ TallyExact
        /\ \A K \in Range(constructs) :
              AllPerfect(K) => counts = (K.construct_id :> NumPairs)

(***************************************************************************)
(* C3 (amended): the counter maps each construct id to the number of       *)
(* record pairs classified as it and has no other key; N >= 1 copies of    *)
(* the perfect pair of C give {C.construct_id: N} when C is the only       *)
(* construct that qualifies for its perfect pair, and the empty counter    *)
(* when another construct qualifies for it too.                            *)
(***************************************************************************)
C3_CounterTally ==
    pc = "done" =>
        /\ TallyExact
        /\ \A K \in Range(constructs) :
              AllPerfect(K) =>
                  IF QualifyingIds(Perfect(K)[1], Perfect(K)[2]) = {K.construct_id}
                  THEN counts = (K.construct_id :> NumPairs)
                  ELSE counts = EmptyMap

\* two copies of the perfect pair of one of two constructs, counted twice
C3_Witness ==
    /\ pc = "done"
    /\ Len(constructs) >= 2
    /\ NumPairs = 2
    /\ \E K \in Range(constructs) :
          /\ AllPerfect(K)
          /\ counts = (K.construct_id :> 2)
          /\ summary = << 2, 2 >>

(***************************************************************************)
(* Scenario B: a 6-plex library whose constructs 0 and 1 have the same     *)
(* spacers 0..2 (one R1 probe for both); R1 contains that probe, R2        *)
(* contains the R2 probe of construct 0 and of no other construct.         *)
(***************************************************************************)
ScenarioB(r1, r2) ==
    /\ Len(constructs) >= 2
    /\ constructs[1].plexity = 6
    /\ constructs[1].construct_id = 0
    /\ constructs[2].construct_id = 1
    /\ \A v \in 1..3 :
          constructs[1].spacers[v].sequence = constructs[2].spacers[v].sequence
    /\ get_r1_sequence(constructs[1]) = get_r1_sequence(constructs[2])
    /\ Occurs(get_r1_sequence(constructs[1]), r1)
    /\ Occurs(get_r2_sequence(constructs[1]), r2)
    /\ \A k \in 2..Len(constructs) : ~Occurs(get_r2_sequence(constructs[k]), r2)

(***************************************************************************)
(* C4 (as stated): a Scenario B record pair produces no hit: no match is   *)
(* returned, the counter is left as it was and an ambiguity warning is     *)
(* printed.                                                                *)
(***************************************************************************)
C4_ScenarioBNoHit ==
    [][(ClassifyStep /\ ScenarioB(r1_seq', r2_seq')) =>
          /\ matched_cid' = None
          /\ counts' = counts
          /\ warnings' = warnings + 1]_vars

(***************************************************************************)
(* C4 (amended): a Scenario B record pair is a hit for construct 0: the    *)
(* match is 0, counter entry 0 and the mapped-read count grow by one, no   *)
(* other entry changes and no ambiguity warning is printed.                *)
(***************************************************************************)
C4_ScenarioBHitsConstruct0 ==
    [][(ClassifyStep /\ ScenarioB(r1_seq', r2_seq')) =>
          /\ matched_cid' = 0
          /\ DOMAIN counts' = (DOMAIN counts) \cup {0}
          /\ counts'[0] = (IF 0 \in DOMAIN counts THEN counts[0] ELSE 0) + 1
          /\ \A c \in (DOMAIN counts) \ {0} : counts'[c] = counts[c]
          /\ mapped_reads' = mapped_reads + 1
          /\ warnings' = warnings]_vars

\* a Scenario B pair has just been classified as construct 0, without warning
C4_Witness ==
    /\ pc = "streaming"
    /\ total_reads = 2
    /\ ScenarioB(r1_seq, r2_seq)
    /\ matched_cid = 0
    /\ counts = (0 :> 1)
    /\ warnings = 0

(***************************************************************************)
(* C5: a record pair for which two or more construct ids satisfy both      *)
(* probe lookups is unclassified and not fatal: no match is returned,      *)
(* every counter entry and the mapped-read count stay as they were, the    *)
(* loop goes on, and every record pair (so every later one) is classified  *)
(* from its own sequence lines.                                            *)
(***************************************************************************)
C5_AmbiguousNotFatal ==
    [][ClassifyStep =>
          /\ r1_seq' = Strip(r1_f[total_reads'])
          /\ r2_seq' = Strip(r2_f[total_reads'])
          /\ matched_cid' = ExpectedMatch(r1_seq', r2_seq')
          /\ (Cardinality(QualifyingIds(r1_seq', r2_seq')) >= 2 =>
                /\ matched_cid' = None
                /\ counts' = counts
                /\ mapped_reads' = mapped_reads
                /\ pc' = "streaming")]_vars

\* an ambiguous first pair left the counter empty and the second pair was counted
C5_Witness ==
    /\ pc = "done"
    /\ NumPairs = 2
    /\ Cardinality(QualifyingIds(StreamPair(1)[1], StreamPair(1)[2])) >= 2
    /\ ExpectedMatch(StreamPair(2)[1], StreamPair(2)[2]) # None
    /\ counts = (ExpectedMatch(StreamPair(2)[1], StreamPair(2)[2]) :> 1)
    /\ mapped_reads = 1
    /\ warnings = 1

(***************************************************************************)
(* Library shapes the build claims speak of                                *)
(***************************************************************************)
\* the sorted list holds complete construct ids only, each with exactly P
\* spacers
UniformLibrary(sp, P) ==
    /\ Len(sp) > 0
    /\ Len(sp) % P = 0
    /\ \A i, j \in 1..Len(sp) :
          (sp[i].cid = sp[j].cid) <=> ((i - 1) \div P = (j - 1) \div P)

\* the number of leading spacers that carry the first construct id
LeadingRun(sp) ==
    Cardinality({i \in 1..Len(sp) : \A j \in 1..i : sp[j].cid = sp[1].cid})

\* the take count table of the probe derivation
TakeTable(P) ==
    CASE P = 3 -> 2 [] P = 4 -> 2 [] P = 5 -> 3 [] P = 6 -> 3
      [] P = 7 -> 4 [] P = 8 -> 4 [] P = 9 -> 5 [] P = 10 -> 5

\* constant/spacer pairs a..b (0-based) of K, concatenated left to right
RECURSIVE PairsConcat(_, _, _)
PairsConcat(K, a, b) ==
    IF a > b THEN << >>
    ELSE K.constants[a + 1].sequence \o K.spacers[a + 1].sequence
            \o PairsConcat(K, a + 1, b)

(***************************************************************************)
(* C6: for every plexity P in 3..10 with take count T(P) of the table,     *)
(* get_r1_sequence is the concatenation of constant/spacer pairs 0..T-1    *)
(* and get_r2_sequence the reverse complement of the concatenation of      *)
(* pairs P-T..P-1; for odd P both windows contain the middle spacer.       *)
(***************************************************************************)
C6_ProbeWindowsFollowTable ==
    (/\ pc = "probed"
     /\ constructs[1].plexity \in 3..10
     /\ Len(constructs[1].constants) = constructs[1].plexity) =>
        LET K == constructs[1]
            P == K.plexity
            T == TakeTable(P)
        IN  /\ r1_seq = PairsConcat(K, 0, T - 1)
            /\ r2_seq = reverse_complement(PairsConcat(K, P - T, P - 1))
            /\ (P % 2 = 1 => (P \div 2) \in (0..(T - 1)) \cap ((P - T)..(P - 1)))

(***************************************************************************)
(* C7: for every P in 3..10 and every sorted spacer list in which each     *)
(* construct id has exactly P spacers, build_constructs accepts the        *)
(* library, every construct it returns has exactly P spacers and the       *)
(* number of constructs is (number of spacers) / P.                        *)
(***************************************************************************)
C7_PlexityInferred ==
    \A P \in 3..10 :
        (pc \in {"built", "error"} /\ UniformLibrary(spacers, P)) =>
            /\ pc = "built"
            /\ Len(constructs) = Len(spacers) \div P
            /\ \A k \in 1..Len(constructs) : Len(constructs[k].spacers) = P

(***************************************************************************)
(* C8: build_constructs signals a configuration error and returns no       *)
(* constructs when the total number of spacers is not a multiple of the    *)
(* inferred plexity (here: of a plexity 4 or 6 that the leading run of     *)
(* equal construct ids shows).                                             *)
(***************************************************************************)
C8_IncompleteGroupRejected ==
    (/\ pc \in {"built", "error"}
     /\ LeadingRun(spacers) \in {4, 6}
     /\ Len(spacers) % LeadingRun(spacers) # 0) =>
        /\ pc = "error"
        /\ constructs = << >>

(***************************************************************************)
(* C9: in every construct K that build_constructs returns, the spacer at   *)
(* index i has vid i and the cid K.construct_id (here: for the libraries   *)
(* of complete 4-plex or 6-plex construct ids).                            *)
(***************************************************************************)
C9_SpacerIdsMatchConstruct ==
    (/\ pc = "built"
     /\ LeadingRun(spacers) \in {4, 6}
     /\ UniformLibrary(spacers, LeadingRun(spacers))) =>
        \A k \in 1..Len(constructs) :
            \A i \in 1..Len(constructs[k].spacers) :
                /\ constructs[k].spacers[i].vid = i - 1
                /\ constructs[k].spacers[i].cid = constructs[k].construct_id

(***************************************************************************)
(* C10: when the constants list is longer than the plexity P, a construct  *)
(* has the R1 probe, the R2 probe and the full sequence it has when built  *)
(* from the first P constants only.                                        *)
(***************************************************************************)
C10_ExtraConstantsIgnored ==
    (/\ pc = "built"
     /\ LeadingRun(spacers) \in {4, 6}
     /\ UniformLibrary(spacers, LeadingRun(spacers))) =>
        \A k \in 1..Len(constructs) :
            LET K == constructs[k]
                KP == Construct(K.spacers, Take(K.constants, K.plexity),
                                K.construct_id)
            IN  /\ get_r1_sequence(K) = get_r1_sequence(KP)
                /\ sequence(K) = sequence(KP)
                /\ get_r2_sequence(K) = get_r2_sequence(KP)
                /\ get_r2_sequence(KP) \in DOMAIN r2_table

(***************************************************************************)
(* What the claims about the counting commands speak of                    *)
(***************************************************************************)
\* the construct ids of the spacer file
LibraryCids == {spacers[i].cid : i \in 1..Len(spacers)}

\* r1_seq, r2_seq and matched_cid hold the last pair process_tuples classified
TupleClassifiedState == command = "tuples" /\ total_reads >= 2

\* the run has read both files to the end of the shorter one
RunEnded == pc \in {"done", "raised", "saved"}

\* both files hold exactly one whole record
SinglePair == Len(r1_f) = 4 /\ Len(r2_f) = 4

\* the spacer hit lists of the two reads
Hits1 == find_spacers_in_tuple_table(r1_seq, tuple_table)
Hits2 == find_spacers_in_tuple_table(r2_seq, tuple_table)

\* window pair (i, j) of width h over the two hit lists
Window(h, ij) ==
    SubSeq(Hits1, ij[1], ij[1] + h - 1) \o SubSeq(Hits2, ij[2], ij[2] + h - 1)

WindowPairs(h) == (1..(Len(Hits1) - h + 1)) \X (1..(Len(Hits2) - h + 1))

\* (i, j) comes before (k, l) in the scan order: i outer, j inner
ScansBefore(a, b) == a[1] < b[1] \/ (a[1] = b[1] /\ a[2] < b[2])

\* the spacer file is a 4-plex library
FourPlex == tuple_table.spacer_count = 4 /\ UniformLibrary(spacers, 4)

(***************************************************************************)
(* C11 (as stated): in a 4-plex library, a single read pair whose R1       *)
(* contains spacers 0 and 1 of construct c as substrings, at any offsets,  *)
(* and whose R2 contains spacers 2 and 3 of c is classified as c and       *)
(* process_tuples returns {c: 1}, whatever lies between and around them.   *)
(***************************************************************************)
C11_SpacersAnywhereClassified ==
    (command = "tuples" /\ RunEnded /\ SinglePair /\ FourPlex) =>
        \A c \in LibraryCids :
            (/\ Occurs(GroupWords(spacers, c)[1], r1_seq)
             /\ Occurs(GroupWords(spacers, c)[2], r1_seq)
             /\ Occurs(GroupWords(spacers, c)[3], r2_seq)
             /\ Occurs(GroupWords(spacers, c)[4], r2_seq))
                => (matched_cid = c /\ counts = (c :> 1))

(***************************************************************************)
(* C11 (amended): in a 4-plex library, a single read pair is classified    *)
(* as c and process_tuples returns {c: 1} when spacers 0 and 1 of c stand  *)
(* next to each other, in this order, in the list of library spacers found *)
(* in R1, spacers 2 and 3 of c stand next to each other, in this order, in *)
(* the list found in R2, no other construct has the same four spacers and  *)
(* no earlier window pair of the scan spells the spacers of a construct;   *)
(* the sequence between and around the spacers is free as long as these    *)
(* conditions hold.                                                        *)
(***************************************************************************)
C11_AdjacentSpacersClassified ==
    (command = "tuples" /\ RunEnded /\ SinglePair /\ FourPlex) =>
        \A c \in LibraryCids :
            (/\ \A d \in LibraryCids \ {c} :
                   GroupWords(spacers, d) # GroupWords(spacers, c)
             /\ \E ij \in WindowPairs(2) :
                   /\ Window(2, ij) = GroupWords(spacers, c)
                   /\ \A o \in WindowPairs(2) :
                         ScansBefore(o, ij) =>
                            \A d \in LibraryCids : Window(2, o) # GroupWords(spacers, d))
                => (matched_cid = c /\ counts = (c :> 1))

\* the pair of construct 1 of two, its spacers away from the start of R1 with
\* another sequence between them and a further library spacer found before
\* them, was counted once
C11_Witness ==
    /\ command = "tuples"
    /\ pc = "saved"
    /\ SinglePair
    /\ FourPlex
    /\ Cardinality(LibraryCids) = 2
    /\ Len(Hits1) > 2
    /\ Window(2, << 2, 1 >>) = GroupWords(spacers, 1)
    /\ ~Occurs(Joined(Take(GroupWords(spacers, 1), 2), << >>), r1_seq)
    /\ matched_cid = 1
    /\ counts = (1 :> 1)

(***************************************************************************)
(* C12: with s1 and s2 the spacer hit lists of R1 and R2 and h = P/2 for   *)
(* P in {4, 6}, _find_matching_tuple returns no match when |s1| < h or     *)
(* |s2| < h or no window pair has an entry in the tuple map, and otherwise *)
(* the map value of the window pair (s1[i..i+h-1], s2[j..j+h-1]) with the  *)
(* lexicographically smallest (i, j) that has an entry.                    *)
(***************************************************************************)
C12_FirstWindowPairWins ==
    (TupleClassifiedState /\ tuple_table.spacer_count \in {4, 6}) =>
        LET h == tuple_table.spacer_count \div 2
            map == IF h = 2 THEN tuple_table.tuple_map_4 ELSE tuple_table.tuple_map_6
            entries == {ij \in WindowPairs(h) : Window(h, ij) \in DOMAIN map}
        IN  /\ (Len(Hits1) < h \/ Len(Hits2) < h) => matched_cid = None
            /\ entries = {} => matched_cid = None
            /\ \A ij \in entries :
                  (\A o \in entries : ~ScansBefore(o, ij))
                      => matched_cid = map[Window(h, ij)]

\* two window pairs have entries for different constructs, the one with the
\* smaller i has the larger j, and the one with the smaller i won
C12_Witness ==
    /\ TupleClassifiedState
    /\ tuple_table.spacer_count = 4
    /\ \E a, b \in WindowPairs(2) :
          /\ Window(2, a) \in DOMAIN tuple_table.tuple_map_4
          /\ Window(2, b) \in DOMAIN tuple_table.tuple_map_4
          /\ a[1] < b[1]
          /\ b[2] < a[2]
          /\ tuple_table.tuple_map_4[Window(2, a)] # tuple_table.tuple_map_4[Window(2, b)]
          /\ \A o \in WindowPairs(2) :
                ScansBefore(o, a) => Window(2, o) \notin DOMAIN tuple_table.tuple_map_4
          /\ matched_cid = tuple_table.tuple_map_4[Window(2, a)]

(***************************************************************************)
(* C13: the tuples command signals an unsupported-plexity error when the   *)
(* plexity of the library is not 4 or 6: building the TupleTable or        *)
(* running process_tuples on such a library ends in an error instead of    *)
(* completing with every pair unclassified.                                *)
(***************************************************************************)
C13_UnsupportedPlexityRejected ==
    (/\ command = "tuples"
     /\ spacers # << >>
     /\ LeadingRun(spacers) \notin {4, 6}) =>
        pc \notin {"done", "saved"}

(***************************************************************************)
(* Streams of whole records                                                *)
(***************************************************************************)
WholeRecords == Len(r1_f) % 4 = 0 /\ Len(r2_f) % 4 = 0

\* min(#R1 records, #R2 records)
MinRecords == Min(Len(r1_f) \div 4, Len(r2_f) \div 4)

\* the zip loop of process_constructs or process_tuples is running or over
InLoop == pc \in {"streaming", "tuples_streaming", "done", "raised", "saved"}

(***************************************************************************)
(* C14: when the R1 and R2 files hold different numbers of records,        *)
(* process_constructs and process_tuples stop at the end of the shorter    *)
(* one: no line beyond its last record is consumed, the last pair          *)
(* classified is its last record with its mate, so exactly                 *)
(* min(#R1 records, #R2 records) pairs are classified, and that number is  *)
(* printed as the number of reads processed.                               *)
(***************************************************************************)
C14_StopsAtShorterStream ==
    (InLoop /\ WholeRecords) =>
        /\ total_reads <= 4 * MinRecords
        /\ RunEnded =>
              /\ total_reads = 4 * MinRecords
              /\ summary[1] = MinRecords
              /\ MinRecords >= 1 =>
                    /\ r1_seq = Strip(r1_f[4 * (MinRecords - 1) + 2])
                    /\ r2_seq = Strip(r2_f[4 * (MinRecords - 1) + 2])

\* R1 held two records and R2 one: one pair was classified and 1 was printed
C14_Witness ==
    /\ pc = "saved"
    /\ Len(r1_f) = 8
    /\ Len(r2_f) = 4
    /\ total_reads = 4
    /\ summary[1] = 1
    /\ mapped_reads = 1

(***************************************************************************)
(* C15: at the end of process_constructs and of process_tuples, for any    *)
(* pair of input files, the sum of the counter values equals the number of *)
(* mapped reads and is at most the number of reads printed as processed    *)
(* (lines read // 4).                                                      *)
(***************************************************************************)
CounterSum ==
    LET RECURSIVE sum(_)
        sum(S) == IF S = {} THEN 0
                  ELSE LET c == CHOOSE x \in S : TRUE
                       IN  counts[c] + sum(S \ {c})
    IN  sum(DOMAIN counts)

C15_SumWithinPairsProcessed ==
    pc \in {"done", "saved"} =>
        /\ CounterSum = mapped_reads
        /\ CounterSum <= summary[1]

(***************************************************************************)
(* What save_results wrote, read back from the lines                       *)
(***************************************************************************)
TabAt(line) == CHOOSE i \in 1..Len(line) : line[i] = "\t"

\* the construct id and the count of a row <id><TAB><count><newline>
RowId(line) == ParseInt(SubSeq(line, 1, TabAt(line) - 1))
RowCount(line) == ParseInt(SubSeq(line, TabAt(line) + 1, Len(line) - 1))

(***************************************************************************)
(* C16: save_results writes the header line ConstructID<TAB>Counts and     *)
(* then exactly one row <id><TAB><count> per key of the counter, in        *)
(* strictly ascending id order; for the counter of process_constructs or   *)
(* process_tuples every written count is at least 1.                       *)
(***************************************************************************)
C16_ResultsSortedOnePerKey ==
    pc = "saved" =>
        /\ output[1] = ResultsHeader
        /\ Len(output) = 1 + Cardinality(DOMAIN counts)
        /\ \A i \in 2..Len(output) :
              /\ Cardinality({k \in 1..Len(output[i]) : output[i][k] = "\t"}) = 1
              /\ output[i][Len(output[i])] = "\n"
              /\ RowId(output[i]) \in DOMAIN counts
              /\ RowCount(output[i]) = counts[RowId(output[i])]
              /\ RowCount(output[i]) >= 1
        /\ \A i, j \in 2..Len(output) : i < j => RowId(output[i]) < RowId(output[j])

\* two constructs were observed: a header and two rows, id 0 before id 1
C16_Witness ==
    /\ pc = "saved"
    /\ DOMAIN counts = {0, 1}
    /\ Len(output) = 3
    /\ RowId(output[2]) = 0
    /\ RowId(output[3]) = 1

(***************************************************************************)
(* C17: the build operation, run on a library build_constructs accepts,    *)
(* completes and writes one FASTA record '>cid_<id>\n<full_sequence>\n'    *)
(* per construct in ascending id order, full_sequence being the            *)
(* concatenation of all P constant/spacer pairs; both for the build        *)
(* command of main and for build_construct_sequences called after          *)
(* build_constructs.                                                       *)
(***************************************************************************)
C17_BuildWritesFasta ==
    (command = "build" /\ pc \in {"done", "raised"}) =>
        /\ pc = "done"
        /\ Len(output) = Len(constructs)
        /\ \A k \in 1..Len(constructs) :
              /\ constructs[k].construct_id = k - 1
              /\ output[k] = << ">", "c", "i", "d", "_" >> \o ToDigits(k - 1)
                    \o << "\n" >>
                    \o PairsConcat(constructs[k], 0, constructs[k].plexity - 1)
                    \o << "\n" >>

(***************************************************************************)
(* C18: describe_reads and process_spacers act on the sequence line of     *)
(* each record only: for two well-formed FASTQ files of n records each,    *)
(* whatever the header, separator and quality lines hold, describe_reads   *)
(* writes exactly n data rows and process_spacers prints exactly n         *)
(* reports.                                                                *)
(***************************************************************************)
C18_OneRowPerRecord ==
    (command \in {"spacers", "describe"} /\ pc = "done") =>
        IF command = "describe"
        THEN /\ output[1] = TsvLine(DescribeFields)
             /\ Len(output) - 1 = Len(r1_f) \div 4
        ELSE Len(reports) = Len(r1_f) \div 4

(***************************************************************************)
(* C19: a record pair in which R1 or R2 holds a character outside A, C, G, *)
(* T is unclassified by process_constructs, also when the reads contain    *)
(* the probes of a construct: no match, no counter entry changes.          *)
(***************************************************************************)
NonACGT(read) == \E i \in 1..Len(read) : read[i] \notin {"A", "C", "G", "T"}

C19_NonACGTUnclassified ==
    [][(ClassifyStep /\ (NonACGT(r1_seq') \/ NonACGT(r2_seq'))) =>
          /\ matched_cid' = None
          /\ counts' = counts
          /\ mapped_reads' = mapped_reads]_vars

(***************************************************************************)
(* C20: a library whose spacer sequences do not all have one length, or    *)
(* whose constant sequences do not all have one length, is rejected with a *)
(* configuration error while it is prepared: build_constructs does not     *)
(* return constructs for it and no record pair is classified against it.   *)
(***************************************************************************)
SameLengths(recs) ==
    \A i, j \in 1..Len(recs) : Len(recs[i].sequence) = Len(recs[j].sequence)

C20_MixedLengthsRejected ==
    (~SameLengths(spacers) \/ ~SameLengths(constants)) =>
        /\ pc \in {"start", "spacers_loaded", "loaded", "error"}
        /\ constructs = << >>
        /\ total_reads = 0

(***************************************************************************)
(* Claims about the functions called directly                              *)
(***************************************************************************)
Nucleotides == {"A", "C", "G", "T", "a", "c", "g", "t"}

HasNonNucleotide(s) == \E i \in 1..Len(s) : s[i] \notin Nucleotides

\* the base that pairs with a nucleotide, in the same case
PairedBase ==
    [ch \in Nucleotides |->
        CASE ch = "A" -> "T" [] ch = "T" -> "A" [] ch = "G" -> "C" [] ch = "C" -> "G"
          [] ch = "a" -> "t" [] ch = "t" -> "a" [] ch = "g" -> "c" [] ch = "c" -> "g"]

(***************************************************************************)
(* C21: reverse_complement signals an error for every input string that    *)
(* holds a character outside A, C, G, T, a, c, g, t; it never returns a    *)
(* result for such an input.                                               *)
(* In the code the call returns for every string, so the state after the   *)
(* return is reached with such an argument.                                *)
(***************************************************************************)
C21_NonNucleotideNeverReturns ==
    pc = "complemented" => ~HasNonNucleotide(arg_sequence)

(***************************************************************************)
(* C22: reverse_complement is a length-preserving involution: for every    *)
(* nucleotide string s, and for the R1 probe of every construct, the       *)
(* result has the length of s, its i-th character is the paired base, in   *)
(* the same case, of the i-th character of s from the end, and applying    *)
(* reverse_complement to the result gives s back.                          *)
(***************************************************************************)
C22_ReverseComplementInvolution ==
    /\ (pc = "complemented" /\ ~HasNonNucleotide(arg_sequence)) =>
          /\ Len(returned) = Len(arg_sequence)
          /\ \A i \in 1..Len(arg_sequence) :
                returned[i] = PairedBase[arg_sequence[Len(arg_sequence) + 1 - i]]
    /\ (pc = "complemented_back" /\ ~HasNonNucleotide(arg_sequence)) =>
          returned = arg_sequence
    /\ (pc = "built") => \A i \in 1..Len(constructs) :
          LET probe == get_r1_sequence(constructs[i])
          IN  /\ Len(reverse_complement(probe)) = Len(probe)
              /\ \A j \in 1..Len(probe) :
                    reverse_complement(probe)[j] = PairedBase[probe[Len(probe) + 1 - j]]
              /\ reverse_complement(reverse_complement(probe)) = probe

\* the string ACg was complemented to cGT and back
C22_Witness ==
    /\ pc = "complemented_back"
    /\ arg_sequence = << "A", "C", "g" >>
    /\ returned = arg_sequence
    /\ constructs # << >>

SpacerSequences == {spacers[i].sequence : i \in 1..Len(spacers)}

(***************************************************************************)
(* C23: for any library and any spacer s of it, _find_spacers on s's own   *)
(* sequence with the library's SpacerTable returns the one-element list    *)
(* [s.sequence].                                                           *)
(* The table takes the length of the first spacer as the k-mer length and  *)
(* the library may hold spacers of other lengths (C20).                    *)
(***************************************************************************)
C23_OwnSequenceFound ==
    (pc = "found" /\ arg_max_count = None /\ arg_sequence \in SpacerSequences) =>
        returned = << arg_sequence >>

(***************************************************************************)
(* C26: for every string s and every k >= 1, iterating a fresh             *)
(* KmerIter(s, k) terminates and yields exactly the substrings s[i:i+k]    *)
(* for i = 0 .. len(s)-k in that order, len(s)-k+1 items of length k, and  *)
(* nothing when len(s) < k; a second iterator constructed over the same    *)
(* (s, k) yields the same list.                                            *)
(***************************************************************************)
\* the for loop keeps calling __next__ until StopIteration
SpecCallsFair == SpecCalls /\ WF_vars(KmerNext)

KmersOf(s, k) ==
    [i \in 1..(IF Len(s) < k THEN 0 ELSE Len(s) - k + 1) |->
        [j \in 1..k |-> s[i + j - 1]]]

KmerIterExhausted ==
    /\ (pc \in {"iterated", "iterated_again"}) =>
          /\ Len(yielded) = IF Len(arg_sequence) < arg_k THEN 0
                            ELSE Len(arg_sequence) - arg_k + 1
          /\ \A i \in 1..Len(yielded) : Len(yielded[i]) = arg_k
          /\ yielded = KmersOf(arg_sequence, arg_k)
    /\ (pc \in {"iterating", "iterating_again"}) =>
          yielded = SubSeq(KmersOf(arg_sequence, arg_k), 1, kmer_iter.pos)
    /\ (pc = "iterated_again") => yielded = returned

C26_KmerIterYieldsAllKmers ==
    /\ []KmerIterExhausted
    /\ (pc = "iterating") ~> (pc = "iterated")
    /\ (pc = "iterating_again") ~> (pc = "iterated_again")

\* the second iterator over ACg with k = 2 ended after AC, Cg
C26_Witness ==
    /\ pc = "iterated_again"
    /\ arg_sequence = << "A", "C", "g" >>
    /\ arg_k = 2
    /\ yielded = << << "A", "C" >>, << "C", "g" >> >>
    /\ returned = yielded

(***************************************************************************)
(* C27: _find_spacers(read, table) returns the k-mers of the read, of the  *)
(* table's spacer length, that are members of the spacer set, in order of  *)
(* position and once per occurrence; with a cap M >= 1 it returns the      *)
(* prefix of length min(M, n) of that list of length n.                    *)
(* _find_spacers_in_tuple_table returns the uncapped list.                 *)
(***************************************************************************)
\* the substrings of s of length L that are members of set, by position
HitsByPosition(s, L, set) ==
    LET at == {i \in 1..(Len(s) - L + 1) : SubSeq(s, i, i + L - 1) \in set}
        nth(n) == CHOOSE i \in at : Cardinality({j \in at : j < i}) = n - 1
    IN  [n \in 1..Cardinality(at) |-> SubSeq(s, nth(n), nth(n) + L - 1)]

\* the k-mers of s of the first spacer's length that are spacers, by position
ExpectedHits(s) == HitsByPosition(s, Len(spacers[1].sequence), SpacerSequences)

C27_FindSpacersPrefixOfHits ==
    /\ (pc = "found" /\ arg_max_count = None) => returned = ExpectedHits(arg_sequence)
    /\ (pc = "found" /\ arg_max_count >= 1) =>
          /\ Len(returned) = Min(arg_max_count, Len(ExpectedHits(arg_sequence)))
          /\ returned = SubSeq(ExpectedHits(arg_sequence), 1, Len(returned))
    /\ (pc = "found_in_tuple_table") => returned = ExpectedHits(arg_sequence)

\* AAA holds the spacer AA twice and the cap 1 cut the list to one AA
C27_Witness ==
    /\ pc = "found"
    /\ arg_max_count = 1
    /\ arg_sequence = << "A", "A", "A" >>
    /\ ExpectedHits(arg_sequence) = << << "A", "A" >>, << "A", "A" >> >>
    /\ returned = << << "A", "A" >> >>

(***************************************************************************)
(* Claims about the two classifiers on the probes of one construct         *)
(***************************************************************************)
DistinctSpacers ==
    \A i, j \in 1..Len(spacers) :
        i # j => spacers[i].sequence # spacers[j].sequence

\* the construct ids are 0..N-1, the cids of the spacers
IdsFromZero ==
    /\ \A i \in 1..Len(constructs) : constructs[i].construct_id = i - 1
    /\ LibraryCids = 0..(Len(constructs) - 1)

\* the sequences of the first and of the second half of K's spacers
FirstHalf(K) ==
    [i \in 1..(Len(K.spacers) \div 2) |-> K.spacers[i].sequence]
SecondHalf(K) ==
    [i \in 1..(Len(K.spacers) \div 2) |->
        K.spacers[Len(K.spacers) \div 2 + i].sequence]

\* the pair under the classifiers is made of K's two probes
PerfectPairOf(K) ==
    r1_seq = get_r1_sequence(K) /\ r2_seq = get_r2_sequence(K)

\* the pair is K's R1 probe and K's R2 probe complemented back
ForwardPairOf(K) ==
    r1_seq = get_r1_sequence(K) /\ r2_seq = reverse_complement(get_r2_sequence(K))

RECURSIVE SplitTabs(_)
SplitTabs(s) ==
    IF \A i \in 1..Len(s) : s[i] # "\t" THEN << s >>
    ELSE LET t == CHOOSE i \in 1..Len(s) :
                     s[i] = "\t" /\ \A j \in 1..(i - 1) : s[j] # "\t"
         IN  << SubSeq(s, 1, t - 1) >> \o SplitTabs(SubSeq(s, t + 1, Len(s)))

\* the 1-based numbers of the consumed lines for which a row is written
DescribedLines == {j \in 1..line_idx : taken_as_sequence(r1_f[j])}

NthDescribedLine(n) ==
    CHOOSE j \in DescribedLines : Cardinality({o \in DescribedLines : o < j}) = n - 1

ConstantSequences == {constants[i].sequence : i \in 1..Len(constants)}

\* the first up to three constants, and spacers, found in a read
FirstConstants(read) ==
    LET all == HitsByPosition(read, Len(constants[1].sequence), ConstantSequences)
    IN  SubSeq(all, 1, Min(3, Len(all)))
FirstSpacers(read) ==
    LET all == ExpectedHits(read)
    IN  SubSeq(all, 1, Min(3, Len(all)))

\* fields first..first+2 of f hold the hits in discovery order, or in reverse
\* discovery order, followed by empty strings
GroupInOrder(f, first, hits) ==
    \A m \in 1..3 : f[first + m - 1] = IF m <= Len(hits) THEN hits[m] ELSE << >>
GroupInReverse(f, first, hits) ==
    \A m \in 1..3 :
        f[first + m - 1] = IF m <= Len(hits) THEN hits[Len(hits) + 1 - m] ELSE << >>

(***************************************************************************)
(* C28: every data row written by describe_reads has exactly 13            *)
(* tab-separated fields: the index, then for R1 the first up to 3          *)
(* constants and the first up to 3 spacers found, in discovery order, then *)
(* for R2 the first up to 3 constants and the first up to 3 spacers found, *)
(* each in reverse discovery order; every group of fewer than 3 hits is    *)
(* padded at its end with empty strings to 3 fields.                       *)
(***************************************************************************)
C28_DescribeRowFields ==
    (command = "describe" /\ pc \in {"reporting", "done"}) =>
        /\ Len(output) = 1 + Cardinality(DescribedLines)
        /\ \A n \in 1..Cardinality(DescribedLines) :
              LET j == NthDescribedLine(n)
                  row == output[n + 1]
                  f == SplitTabs(SubSeq(row, 1, Len(row) - 1))
                  r1 == Strip(r1_f[j])
                  r2 == Strip(r2_f[j])
              IN  /\ row[Len(row)] = "\n"
                  /\ Len(f) = 13
                  /\ f[1] = ToDigits(j - 1)
                  /\ GroupInOrder(f, 2, FirstConstants(r1))
                  /\ GroupInOrder(f, 5, FirstSpacers(r1))
                  /\ GroupInReverse(f, 8, FirstConstants(r2))
                  /\ GroupInReverse(f, 11, FirstSpacers(r2))

\* a row whose R2 holds two different spacers, written second one first and
\* followed by one empty field, and whose R1 holds fewer than three spacers
C28_Witness ==
    /\ command = "describe"
    /\ pc = "done"
    /\ Len(output) >= 2
    /\ LET f == SplitTabs(SubSeq(output[2], 1, Len(output[2]) - 1))
           found == ExpectedHits(r2_f[2])
       IN  /\ Len(f) = 13
           /\ Len(found) = 2
           /\ found[1] # found[2]
           /\ f[11] = found[2] /\ f[12] = found[1] /\ f[13] = << >>
           /\ f[7] = << >>

(***************************************************************************)
(* C29: for every pair of input streams, including streams that hold no    *)
(* complete record pair (empty files, or fewer than 4 lines in the shorter *)
(* stream), process_constructs and process_tuples terminate normally:      *)
(* they print the end-of-stream summary and return a counter; they never   *)
(* end in an error because of the record count.                            *)
(* In the code the mapping rate divides by total_reads // 4.               *)
(***************************************************************************)
C29_ShortStreamsEndNormally ==
    (command \in {"constructs", "tuples"}
        /\ zip_length(r1_f, r2_f) < 4
        /\ total_reads = zip_length(r1_f, r2_f)) =>
        pc # "raised"

(***************************************************************************)
(* Claims about the order of the records                                   *)
(***************************************************************************)
\* the classifier of the running command
ClassifyPair(pair) ==
    IF command = "constructs"
    THEN find_matching_construct(pair[1], pair[2], r1_table, r2_table)
    ELSE find_matching_tuple(pair[1], pair[2], tuple_table)

\* the counter process_constructs / process_tuples hold after the record
\* pairs of `pairs`, consumed from first to last
RECURSIVE counter_after(_)
counter_after(pairs) ==
    IF pairs = << >> THEN EmptyMap
    ELSE LET before == counter_after(SubSeq(pairs, 1, Len(pairs) - 1))
             cid == ClassifyPair(pairs[Len(pairs)])
         IN  IF cid # None THEN count_hit(before, cid) ELSE before

(***************************************************************************)
(* C25: the final counter is independent of the stream order: for any      *)
(* library and any finite sequence of record pairs, process_constructs     *)
(* and process_tuples return the same counter for every permutation of     *)
(* the record pairs.                                                       *)
(***************************************************************************)
C25_CounterIndependentOfOrder ==
    (pc \in {"done", "saved"} /\ WholeRecords) =>
        \A p \in Permutations(1..NumPairs) :
            counter_after([i \in 1..NumPairs |-> StreamPair(p[i])]) = counts

\* two different record pairs were counted for two different constructs
C25_Witness ==
    /\ pc = "done"
    /\ WholeRecords
    /\ NumPairs = 2
    /\ StreamPair(1) # StreamPair(2)
    /\ Cardinality(DOMAIN counts) = 2
    /\ counter_after(<< StreamPair(2), StreamPair(1) >>) = counts

(***************************************************************************)
(* Claims about the state the stream phase leaves alone                    *)
(***************************************************************************)
\* the loops of process_constructs, process_tuples, process_spacers and
\* describe_reads are running
InStreamPhase == pc \in {"streaming", "tuples_streaming", "reporting"}

\* the library: its files, lists, constructs, probe tables and lookup tables
library == << spacer_rows, constant_rows, spacers, constants, constructs,
              self_constructs, r1_table, r2_table, tuple_table,
              constant_table, spacer_table >>

(***************************************************************************)
(* C24: the stream phase is read-only on the library: no step of           *)
(* process_constructs, process_tuples, process_spacers or describe_reads,  *)
(* with the calls of _find_matching_construct, _find_matching_tuple,       *)
(* _find_spacers and _find_constants it makes, changes r1_table, r2_table  *)
(* (no key or id is added or removed), the constructs, the spacers, the    *)
(* tuple maps or the constant map; while the two counting functions        *)
(* consume records only the counter, the tallies and the locals of the     *)
(* loop change.                                                            *)
(***************************************************************************)
C24_StreamPhaseReadsLibraryOnly ==
    [][ /\ InStreamPhase => UNCHANGED library
        /\ (pc \in {"streaming", "tuples_streaming"}) =>
              UNCHANGED << r1_f, r2_f, command, line_idx, output, reports >>
      ]_vars

\* a record pair was classified by process_constructs, with the probe tables
\* filled
C24_Witness ==
    /\ pc = "streaming"
    /\ total_reads >= 2
    /\ mapped_reads >= 1
    /\ matched_cid # None
    /\ DOMAIN r1_table # {}
    /\ DOMAIN r2_table # {}

====
